---------------------------- MODULE Spec2Model ----------------------------
(***************************************************************************)
(* Reading-state and content-delivery engine of the ManhwaVerse client.    *)
(*                                                                         *)
(*   StorageManager           src/unnamed/part_001 (storage.js part)       *)
(*   homepage / pagination    src/assets/js/main.js                        *)
(*   reader / image loading   src/assets/js/main.js                        *)
(*                                                                         *)
(* JavaScript strings are TLA+ strings (\o is string concatenation), JS    *)
(* arrays are sequences (JS index i is TLA+ index i + 1), timestamps are   *)
(* readings of the integer clock `now`.                                    *)
(***************************************************************************)
EXTENDS Integers, Sequences, FiniteSets, TLC

VARIABLES
    \* ---- StorageManager (localStorage and the clock it stamps with)
    localStorage,   \* key -> stored item
    storageFull,    \* TRUE: localStorage.setItem throws (quota exceeded)
    now,            \* the clock read by new Date()
    lastOp,         \* the last StorageManager call and what it returned
    readingHistory, \* AppState.readingHistory (the continue-reading list)
    \* ---- reader page
    readerPc,       \* position of handleReaderPage
    chapterUrl,     \* ?url= of the reader page
    chapterList,    \* sessionStorage current_manga_chapters
    currentManga,   \* sessionStorage current_manga
    imageUrls,      \* image_urls of the chapter response
    container,      \* what #reader-content shows
    readerTitle,    \* document.title / #reader-title
    tasks,          \* the <img> elements appended to the container
    nav,            \* resolved navigation (currentIndex, prevChapter, nextChapter)
    prevBtn,        \* state of the previous-chapter buttons
    nextBtn,        \* state of the next-chapter buttons
    endNav,         \* display of #end-of-chapter-nav
    \* ---- homepage: updates grid and its pagination cursors
    homePc,         \* position of loadHomepageContent
    quickResult,    \* outcome of the quick-load request
    allMangaData,   \* window.allMangaData
    updatesGrid,    \* what .updates-grid shows
    cursor,         \* closure state of setupProgressiveScroll
    timerPending,   \* the cursor's 1 s setTimeout has not fired yet
    lastCall,       \* what the last loadMoreContent call did
    infCursor,      \* closure state of setupInfiniteScroll
    inFlight,       \* /load-more requests awaiting their response
    \* ---- homepage: genre fan-out
    genrePc,        \* position of loadComickGenres
    genreFetch,     \* per genre: the state of its fetch
    trendingGrid,   \* what .trending-grid shows
    allComickComics, \* window.allComickComics
    firstSettled,   \* the genre whose request settled first (0: none yet)
    \* ---- one call of a fetch function, followed through makeApiRequest
    request,        \* its position, timer, upstream response and result
    \* ---- detail page
    mangaChapters,  \* window.mangaChapters
    chapterListView, \* the links #chapter-list shows, top to bottom
    sortActive,     \* the sort button that carries the class 'active'
    mangaContent,   \* what #manga-details-content shows
    currentMangaSource, \* window.currentMangaSource
    currentMangaData,   \* window.currentMangaData
    activeSource,   \* the source button that carries the class 'active'
    sourceFetches,  \* per source: the state of its latest details request
    \* ---- live search
    searchTimer,    \* the input event the debounce timer is holding back
    lastSearchQuery, \* AppState.lastSearchQuery
    searchFetches,  \* per query: its /search requests awaiting a response
    resultsContainer \* #search-results-container: display and content

storeVars  == <<localStorage, storageFull, now, lastOp, readingHistory>>
readerVars == <<readerPc, chapterUrl, chapterList, currentManga, imageUrls,
                container, readerTitle, tasks, nav, prevBtn, nextBtn, endNav>>
scrollVars == <<homePc, quickResult, allMangaData, updatesGrid, cursor,
                timerPending, lastCall, infCursor, inFlight>>
genreVars  == <<genrePc, genreFetch, trendingGrid, allComickComics, firstSettled>>
requestVars == <<request>>
detailVars == <<mangaChapters, chapterListView, sortActive, mangaContent,
                currentMangaSource, currentMangaData, activeSource,
                sourceFetches>>
searchVars == <<searchTimer, lastSearchQuery, searchFetches, resultsContainer>>
vars       == <<storeVars, readerVars, scrollVars, genreVars, requestVars,
                detailVars, searchVars>>

-----------------------------------------------------------------------------
(* Generic helpers                                                         *)

Min(a, b) == IF a < b THEN a ELSE b

Range(s) == {s[i] : i \in DOMAIN s}

\* Array.prototype.slice(from, to) with 0-based, end-exclusive indices.
Slice(s, from, to) == SubSeq(s, from + 1, Min(to, Len(s)))

\* Array.prototype.findIndex, given the positions of s whose element passes
\* the test: the first of them as a 0-based index, or -1.
FindIndex(hits) ==
    IF hits # {}
    THEN (CHOOSE i \in hits : \A j \in hits : i <= j) - 1
    ELSE -1

\* Array.prototype.splice(index, 1)
RemoveAt(s, index) == SubSeq(s, 1, index) \o SubSeq(s, index + 2, Len(s))

-----------------------------------------------------------------------------
(* StorageManager                                                          *)

\* Bounds of the store's model.
MaxTicks == 2          \* clock ticks observed after construction

HistoryCap == 100      \* "Keep only last 100 entries"

KeyHistory     == "manhwa_reading_history"
KeyBookmarks   == "manhwa_bookmarks"
KeyProgress    == "manhwa_reading_progress"
KeyPreferences == "manhwa_user_preferences"
StoreKeys == {KeyHistory, KeyBookmarks, KeyProgress, KeyPreferences}
\* The key main.js keeps its continue-reading list under.
KeyContinue    == "readingHistory"
AllKeys == StoreKeys \cup {KeyContinue}

DefaultSource == "AsuraScanz"

\* Inputs.  Titles and chapter titles are chosen so that two different
\* (title, chapter) pairs concatenate to the same composite id.
Titles        == {"a", "a_b"}
ChapterTitles == {"c", "b_c"}
\* mangaData.source; "" stands for a missing source field (falsy).
SourcesIn     == {"", "Webtoons"}
\* The title whose chapters "1", "2", ... fill the history before the run.
SerialTitle   == "t0"
StatusInputs  == {"reading", "completed", "plan-to-read", "dropped"}

\* localStorage items: absent, or the JSON text of a value.  JSON.stringify
\* followed by JSON.parse gives back arrays and objects of strings, numbers
\* and null unchanged, so a JSON text is represented by the value it denotes.
NoItem == [present |-> FALSE, json |-> <<>>]
Stringify(value) == [present |-> TRUE, json |-> value]

\* get(key) || fallback
GetOr(store, key, fallback) ==
    IF store[key].present THEN store[key].json ELSE fallback

\* set(key, value): the store after the call (unchanged when setItem throws).
SetItem(store, full, key, value) ==
    IF full THEN store ELSE [store EXCEPT ![key] = Stringify(value)]

\* set(key, value): its return value.
SetReturns(full) == ~full

SetThrows_Uncaught(full) == full

\* set(key, value): whether the exception of a failed setItem leaves set().
\* The try/catch around setItem logs it and returns false.
SetThrows(full) == FALSE

\* What a method that has called set() hands back: its own result, unless an
\* exception left set(), which then leaves the method too.
Completes(full, result) == IF SetThrows(full) THEN "throws" ELSE result

DefaultPreferences ==
    [theme |-> "dark", readingMode |-> "long-strip", autoScroll |-> FALSE,
     fontSize |-> "medium"]

\* mangaData.source || 'AsuraScanz'
SourceOf(mangaData) ==
    IF mangaData.source = "" THEN DefaultSource ELSE mangaData.source

HistoryId(mangaTitle, chapterTitle) == mangaTitle \o "_" \o chapterTitle

\* The historyItem built by addToHistory (cover and URLs are carried along
\* unread and are left out).
HistoryItem(mangaData, chapterTitle, readAt) ==
    [id           |-> HistoryId(mangaData.title, chapterTitle),
     mangaTitle   |-> mangaData.title,
     chapterTitle |-> chapterTitle,
     readAt       |-> readAt,
     source       |-> SourceOf(mangaData)]

\* history.splice(100) when longer than 100
Truncate(history) ==
    IF Len(history) > HistoryCap THEN SubSeq(history, 1, HistoryCap) ELSE history

DropExisting_Keeps(history, id) == history

\* "Remove existing entry if it exists"
DropExisting(history, id) ==
    LET HasId(item) == item.id = id
        existingIndex == FindIndex({i \in DOMAIN history : HasId(history[i])})
    IN  IF existingIndex # -1 THEN RemoveAt(history, existingIndex) ELSE history

\* The array addToHistory hands to set().
HistoryAfterAdd(history, item) ==
    Truncate(<<item>> \o DropExisting(history, item.id))

\* progress[mangaTitle]?.totalChapters || 0
TotalChaptersOf(progress, mangaTitle) ==
    IF mangaTitle \in DOMAIN progress
       /\ "totalChapters" \in DOMAIN progress[mangaTitle]
    THEN progress[mangaTitle].totalChapters
    ELSE 0

\* The object updateReadingProgress hands to set().
ProgressAfterUpdate(progress, mangaTitle, chapterTitle, at) ==
    LET entry == [lastChapter   |-> chapterTitle,
                  lastReadAt    |-> at,
                  totalChapters |-> TotalChaptersOf(progress, mangaTitle)]
    IN  [t \in DOMAIN progress \cup {mangaTitle} |->
            IF t = mangaTitle THEN entry ELSE progress[t]]

EmptyObject == [t \in {} |-> 0]

Bookmark_KeyedBySource(mangaData, addedAt) ==
    [id              |-> mangaData.title \o "@" \o SourceOf(mangaData),
     title           |-> mangaData.title,
     addedAt         |-> addedAt,
     source          |-> SourceOf(mangaData),
     lastReadChapter |-> "null",
     status          |-> "reading"]

\* The bookmark built by addBookmark.
Bookmark(mangaData, addedAt) ==
    [id              |-> mangaData.title,
     title           |-> mangaData.title,
     addedAt         |-> addedAt,
     source          |-> SourceOf(mangaData),
     lastReadChapter |-> "null",
     status          |-> "reading"]

\* isBookmarked(mangaTitle)
IsBookmarked(store, mangaTitle) ==
    \E i \in DOMAIN GetOr(store, KeyBookmarks, <<>>) :
        GetOr(store, KeyBookmarks, <<>>)[i].id = mangaTitle

\* The clock when the model starts: late enough for HistoryCap earlier reads.
ClockStart == HistoryCap

\* A reading of the clock taken at or after `from`: the same millisecond or a
\* later one (MaxTicks ticks are followed).
ClockReadings(from) == {t \in {from, from + 1} : t <= ClockStart + MaxTicks}

\* The history after chapters "1" .. "n" of SerialTitle were read in order,
\* at times 1 .. n (newest first), and the progress record that goes with it.
SerialHistory(n) ==
    [i \in 1..n |->
        HistoryItem([title |-> SerialTitle, source |-> ""],
                    ToString(n - i + 1), n - i + 1)]

SerialProgress(n) ==
    IF n = 0 THEN EmptyObject
    ELSE ProgressAfterUpdate(EmptyObject, SerialTitle, ToString(n), n)

\* Sizes of the history the model starts from.
SerialSizes == {0, HistoryCap - 1, HistoryCap}

\* The store after construction (init() fills every absent category).
StoreAfterInit(n) ==
    [k \in AllKeys |->
        CASE k = KeyHistory     -> Stringify(SerialHistory(n))
          [] k = KeyBookmarks   -> Stringify(<<>>)
          [] k = KeyProgress    -> Stringify(SerialProgress(n))
          [] k = KeyPreferences -> Stringify(DefaultPreferences)
          [] OTHER              -> NoItem]

NoOp == [name |-> "none", title |-> "", returned |-> "undefined", value |-> <<>>]

InitStore(sizes) ==
    /\ \E n \in sizes : localStorage = StoreAfterInit(n)
    /\ storageFull = FALSE
    /\ now = ClockStart
    /\ lastOp = NoOp
    /\ readingHistory = <<>>

\* addToHistory(mangaData, chapterData)
AddToHistory(mangaData, chapterTitle) ==
    \E readAt \in ClockReadings(now) : \E lastReadAt \in ClockReadings(readAt) :
        LET history  == GetOr(localStorage, KeyHistory, <<>>)
            item     == HistoryItem(mangaData, chapterTitle, readAt)
            store1   == SetItem(localStorage, storageFull, KeyHistory,
                                HistoryAfterAdd(history, item))
            \* this.updateReadingProgress(mangaData.title, chapterData.title)
            progress == GetOr(store1, KeyProgress, EmptyObject)
            store2   == SetItem(store1, storageFull, KeyProgress,
                                ProgressAfterUpdate(progress, mangaData.title,
                                                    chapterTitle, lastReadAt))
        IN  /\ localStorage' = store2
            /\ now' = lastReadAt
            /\ lastOp' = [name |-> "addToHistory", title |-> mangaData.title,
                          returned |-> Completes(storageFull, "item"),
                          value |-> item]
            /\ UNCHANGED <<storageFull, readingHistory>>
            /\ UNCHANGED <<readerVars, scrollVars, genreVars, requestVars, detailVars, searchVars>>

\* clearHistory()
ClearHistory ==
    /\ localStorage' = SetItem(localStorage, storageFull, KeyHistory, <<>>)
    /\ lastOp' = [name |-> "clearHistory", title |-> "",
                  returned |-> Completes(storageFull, "undefined"), value |-> <<>>]
    /\ UNCHANGED <<storageFull, now, readingHistory>>
    /\ UNCHANGED <<readerVars, scrollVars, genreVars, requestVars, detailVars, searchVars>>

AlreadyBookmarked_Never(bookmarks, id) == FALSE

\* "Check if already bookmarked": existingIndex !== -1
AlreadyBookmarked(bookmarks, id) ==
    LET HasId(item) == item.id = id
    IN  FindIndex({i \in DOMAIN bookmarks : HasId(bookmarks[i])}) # -1

\* addBookmark(mangaData)
AddBookmark(mangaData) ==
    \E addedAt \in ClockReadings(now) :
        LET bookmarks == GetOr(localStorage, KeyBookmarks, <<>>)
            bookmark  == Bookmark(mangaData, addedAt)
        IN  /\ now' = addedAt
            /\ UNCHANGED <<storageFull, readingHistory>>
            /\ UNCHANGED <<readerVars, scrollVars, genreVars, requestVars, detailVars, searchVars>>
            /\ IF AlreadyBookmarked(bookmarks, bookmark.id)
               THEN /\ lastOp' = [name |-> "addBookmark", title |-> mangaData.title,
                                  returned |-> "false", value |-> bookmark]
                    /\ UNCHANGED localStorage
               ELSE /\ localStorage' = SetItem(localStorage, storageFull, KeyBookmarks,
                                               <<bookmark>> \o bookmarks)
                    /\ lastOp' = [name |-> "addBookmark", title |-> mangaData.title,
                                  returned |-> Completes(storageFull, "bookmark"),
                                  value |-> bookmark]

\* removeBookmark(mangaTitle)
RemoveBookmark(mangaTitle) ==
    LET bookmarks == GetOr(localStorage, KeyBookmarks, <<>>)
        Other(item) == item.id # mangaTitle
    IN  /\ localStorage' = SetItem(localStorage, storageFull, KeyBookmarks,
                                   SelectSeq(bookmarks, Other))
        /\ lastOp' = [name |-> "removeBookmark", title |-> mangaTitle,
                      returned |-> Completes(storageFull, "true"), value |-> <<>>]
        /\ UNCHANGED <<storageFull, now, readingHistory>>
        /\ UNCHANGED <<readerVars, scrollVars, genreVars, requestVars, detailVars, searchVars>>

\* updateBookmarkStatus(mangaTitle, status)
UpdateBookmarkStatus(mangaTitle, status) ==
    LET bookmarks == GetOr(localStorage, KeyBookmarks, <<>>)
        HasId(item) == item.id = mangaTitle
        index == FindIndex({i \in DOMAIN bookmarks : HasId(bookmarks[i])})
    IN  /\ UNCHANGED <<storageFull, now, readingHistory>>
        /\ UNCHANGED <<readerVars, scrollVars, genreVars, requestVars, detailVars, searchVars>>
        /\ IF index # -1
           THEN /\ localStorage' =
                      SetItem(localStorage, storageFull, KeyBookmarks,
                              [bookmarks EXCEPT ![index + 1].status = status])
                /\ lastOp' = [name |-> "updateBookmarkStatus", title |-> mangaTitle,
                              returned |-> Completes(storageFull, "true"),
                              value |-> <<>>]
           ELSE /\ lastOp' = [name |-> "updateBookmarkStatus", title |-> mangaTitle,
                              returned |-> "false", value |-> <<>>]
                /\ UNCHANGED localStorage

\* window.toggleBookmark(button), the bookmark button of a catalog card whose
\* data-manga attribute holds mangaData.
ToggleBookmark(mangaData) ==
    \E addedAt \in ClockReadings(now) :
        LET bookmarks == GetOr(localStorage, KeyBookmarks, <<>>)
            bookmark  == Bookmark(mangaData, addedAt)
            Other(item) == item.id # mangaData.title
        IN  /\ UNCHANGED <<storageFull, readingHistory>>
            /\ UNCHANGED <<readerVars, scrollVars, genreVars, requestVars, detailVars, searchVars>>
            /\ IF IsBookmarked(localStorage, mangaData.title)
               THEN \* storageManager.removeBookmark(mangaData.title)
                    /\ localStorage' = SetItem(localStorage, storageFull, KeyBookmarks,
                                               SelectSeq(bookmarks, Other))
                    /\ UNCHANGED now
                    /\ lastOp' = [name |-> "toggleBookmark", title |-> mangaData.title,
                                  returned |-> "removed", value |-> mangaData]
               ELSE \* storageManager.addBookmark(mangaData)
                    /\ localStorage' =
                          IF AlreadyBookmarked(bookmarks, bookmark.id)
                          THEN localStorage
                          ELSE SetItem(localStorage, storageFull, KeyBookmarks,
                                       <<bookmark>> \o bookmarks)
                    /\ now' = addedAt
                    /\ lastOp' = [name |-> "toggleBookmark", title |-> mangaData.title,
                                  returned |-> "added", value |-> mangaData]

-----------------------------------------------------------------------------
(* StorageManager: progress, preferences, set, import, init               *)

\* updateReadingProgress(mangaTitle, chapterTitle)
UpdateReadingProgress(mangaTitle, chapterTitle) ==
    \E lastReadAt \in ClockReadings(now) :
        LET progress == GetOr(localStorage, KeyProgress, EmptyObject)
        IN  /\ localStorage' =
                  SetItem(localStorage, storageFull, KeyProgress,
                          ProgressAfterUpdate(progress, mangaTitle,
                                              chapterTitle, lastReadAt))
            /\ now' = lastReadAt
            /\ lastOp' = [name |-> "updateReadingProgress", title |-> mangaTitle,
                          returned |-> Completes(storageFull, "undefined"),
                          value |-> <<>>]
            /\ UNCHANGED <<storageFull, readingHistory>>
            /\ UNCHANGED <<readerVars, scrollVars, genreVars, requestVars, detailVars, searchVars>>

\* setTotalChapters: the progress entry of the title after the assignment
\* (an entry created here has no other field).
EntryWithTotal(progress, mangaTitle, totalChapters) ==
    LET entry == IF mangaTitle \in DOMAIN progress
                 THEN progress[mangaTitle] ELSE EmptyObject
    IN  [f \in DOMAIN entry \cup {"totalChapters"} |->
            IF f = "totalChapters" THEN totalChapters ELSE entry[f]]

\* setTotalChapters(mangaTitle, totalChapters)
SetTotalChapters(mangaTitle, totalChapters) ==
    LET progress == GetOr(localStorage, KeyProgress, EmptyObject)
        after    == [t \in DOMAIN progress \cup {mangaTitle} |->
                        IF t = mangaTitle
                        THEN EntryWithTotal(progress, mangaTitle, totalChapters)
                        ELSE progress[t]]
    IN  /\ localStorage' = SetItem(localStorage, storageFull, KeyProgress, after)
        /\ lastOp' = [name |-> "setTotalChapters", title |-> mangaTitle,
                      returned |-> Completes(storageFull, "undefined"),
                      value |-> [before |-> TotalChaptersOf(progress, mangaTitle)]]
        /\ UNCHANGED <<storageFull, now, readingHistory>>
        /\ UNCHANGED <<readerVars, scrollVars, genreVars, requestVars, detailVars, searchVars>>

\* { ...current, ...newPreferences }
Spread(current, newPreferences) ==
    [k \in DOMAIN current \cup DOMAIN newPreferences |->
        IF k \in DOMAIN newPreferences THEN newPreferences[k] ELSE current[k]]

PreferenceUpdates == {[theme |-> "light"], [fontSize |-> "large"]}

\* updatePreferences(newPreferences)
UpdatePreferences(newPreferences) ==
    LET current == GetOr(localStorage, KeyPreferences, EmptyObject)
        updated == Spread(current, newPreferences)
    IN  /\ localStorage' = SetItem(localStorage, storageFull, KeyPreferences, updated)
        /\ lastOp' = [name |-> "updatePreferences", title |-> "",
                      returned |-> Completes(storageFull, "updated"),
                      value |-> updated]
        /\ UNCHANGED <<storageFull, now, readingHistory>>
        /\ UNCHANGED <<readerVars, scrollVars, genreVars, requestVars, detailVars, searchVars>>

\* A value handed to set() or carried by a field of an import bundle:
\*   "null"      null, undefined or a missing field (falsy)
\*   "value"     a well-formed record of the category
\*   "garbage"   a truthy value that is not a record of the category
\*   "circular"  a value JSON.stringify throws on
NullPayload     == [kind |-> "null"]
GarbagePayload  == [kind |-> "garbage"]
CircularPayload == [kind |-> "circular"]
Payload(value)  == [kind |-> "value", value |-> value]

\* What a garbage payload leaves in the store.
Garbage == [corrupt |-> "garbage"]

Truthy(payload) == payload.kind # "null"

PayloadValue(payload) ==
    IF payload.kind = "value" THEN payload.value ELSE Garbage

\* set(key, value) for such a value: JSON.stringify throws inside the try
\* block for a circular one and nothing is written.
SetPayload(store, full, key, payload) ==
    IF payload.kind = "circular"
    THEN store
    ELSE SetItem(store, full, key, PayloadValue(payload))

SetPayloadReturns(full, payload) ==
    IF payload.kind = "circular" THEN FALSE ELSE SetReturns(full)

\* set(key, value) called directly.
StorageSet(key, payload) ==
    /\ Truthy(payload)
    /\ localStorage' = SetPayload(localStorage, storageFull, key, payload)
    /\ lastOp' = [name |-> "set", title |-> key,
                  returned |-> Completes(storageFull,
                                  IF SetPayloadReturns(storageFull, payload)
                                  THEN "true" ELSE "false"),
                  value |-> [before |-> localStorage, full |-> storageFull]]
    /\ UNCHANGED <<storageFull, now, readingHistory>>
    /\ UNCHANGED <<readerVars, scrollVars, genreVars, requestVars, detailVars, searchVars>>

\* if (data.<field>) this.set(key, data.<field>)
ImportField(store, full, key, payload) ==
    IF Truthy(payload) THEN SetPayload(store, full, key, payload) ELSE store

\* The store after the four guarded writes of importData, in their order.
StoreAfterImport(store, full, data) ==
    LET s1 == ImportField(store, full, KeyHistory, data.readingHistory)
        s2 == ImportField(s1, full, KeyBookmarks, data.bookmarks)
        s3 == ImportField(s2, full, KeyProgress, data.readingProgress)
    IN  ImportField(s3, full, KeyPreferences, data.userPreferences)

\* importData(null): reading data.readingHistory throws inside the try block.
NullBundle == [kind |-> "null"]

Bundle(history, bookmarks, progress, preferences) ==
    [kind |-> "object", readingHistory |-> history, bookmarks |-> bookmarks,
     readingProgress |-> progress, userPreferences |-> preferences]

ImportedHistory   == <<HistoryItem([title |-> "a", source |-> ""], "c", 1)>>
ImportedBookmarks == <<Bookmark([title |-> "a", source |-> "Webtoons"], 1)>>
ImportedProgress  == ProgressAfterUpdate(EmptyObject, "a", "c", 1)
ImportedPreferences == Spread(DefaultPreferences, [theme |-> "light"])

Bundles ==
    {Bundle(h, b, p, u) :
        h \in {NullPayload, Payload(ImportedHistory)},
        b \in {NullPayload, Payload(ImportedBookmarks)},
        p \in {NullPayload, Payload(ImportedProgress)},
        u \in {NullPayload, Payload(ImportedPreferences), GarbagePayload,
               CircularPayload}}
    \cup {NullBundle}

\* importData(data)
ImportData(data) ==
    /\ IF data.kind = "null"
       THEN /\ UNCHANGED localStorage
            /\ lastOp' = [name |-> "importData", title |-> "", returned |-> "false",
                          value |-> [before |-> localStorage, data |-> data]]
       ELSE /\ localStorage' = StoreAfterImport(localStorage, storageFull, data)
            /\ lastOp' = [name |-> "importData", title |-> "",
                          returned |-> IF SetThrows(storageFull)
                                       THEN "false" ELSE "true",
                          value |-> [before |-> localStorage, data |-> data]]
    /\ UNCHANGED <<storageFull, now, readingHistory>>
    /\ UNCHANGED <<readerVars, scrollVars, genreVars, requestVars, detailVars, searchVars>>

\* The value init() writes for a category it finds empty.
DefaultOf(key) ==
    CASE key = KeyHistory     -> <<>>
      [] key = KeyBookmarks   -> <<>>
      [] key = KeyProgress    -> EmptyObject
      [] key = KeyPreferences -> DefaultPreferences

InitField_Resets(store, full, key) == SetItem(store, full, key, DefaultOf(key))

\* if (!this.get(key)) this.set(key, <default>).  Every value the manager
\* writes is an array or an object, so get() is falsy only for an absent item.
InitField(store, full, key) ==
    IF ~store[key].present THEN SetItem(store, full, key, DefaultOf(key)) ELSE store

\* The store after init().
StoreAfterInitCall(store, full) ==
    InitField(InitField(InitField(InitField(store, full, KeyHistory),
                                  full, KeyBookmarks),
                        full, KeyProgress),
              full, KeyPreferences)

\* init(), as the constructor runs it.
StorageInit ==
    /\ localStorage' = StoreAfterInitCall(localStorage, storageFull)
    /\ lastOp' = [name |-> "init", title |-> "",
                  returned |-> Completes(storageFull, "undefined"),
                  value |-> [before |-> localStorage]]
    /\ UNCHANGED <<storageFull, now, readingHistory>>
    /\ UNCHANGED <<readerVars, scrollVars, genreVars, requestVars, detailVars, searchVars>>

StoreAfterRemoveAll_HistoryOnly(store) ==
    [k \in AllKeys |-> IF k = KeyHistory THEN NoItem ELSE store[k]]

StoreAfterRemoveAll_Everything(store) == [k \in AllKeys |-> NoItem]

\* localStorage.removeItem(key) for the four keys.
StoreAfterRemoveAll(store) ==
    [k \in AllKeys |-> IF k \in StoreKeys THEN NoItem ELSE store[k]]

\* clearAllData()
ClearAllData ==
    /\ localStorage' =
          StoreAfterInitCall(StoreAfterRemoveAll(localStorage), storageFull)
    /\ lastOp' = [name |-> "clearAllData", title |-> "",
                  returned |-> Completes(storageFull, "undefined"),
                  value |-> [before |-> localStorage]]
    /\ UNCHANGED <<storageFull, now, readingHistory>>
    /\ UNCHANGED <<readerVars, scrollVars, genreVars, requestVars, detailVars, searchVars>>

\* The browser's quota is reached, or space is freed again.
QuotaChanges ==
    /\ storageFull' = ~storageFull
    /\ UNCHANGED <<localStorage, now, lastOp, readingHistory>>
    /\ UNCHANGED <<readerVars, scrollVars, genreVars, requestVars, detailVars, searchVars>>

-----------------------------------------------------------------------------
(* makeApiRequest                                                          *)

\* What the upstream does with one request.
ResponseKinds == {"success", "http_error", "api_error", "network_error", "timeout"}

\* makeApiRequest throws unless the response is ok and carries success = true;
\* a request still pending at REQUEST_TIMEOUT is aborted and throws as well.
MakeApiRequestThrows(kind) == kind # "success"

-----------------------------------------------------------------------------
(* Reader page: handleReaderPage, displayChapterImages                     *)

MaxChapters == 3       \* longest chapter list
MaxImages   == 11      \* most images of one chapter

ImmediateCount == 10   \* images.slice(0, 10)
RecentCap      == 10   \* AppState.readingHistory.slice(0, 10)

\* Chapter URLs of the title, and the URLs the reader may be opened with
\* ("" is a missing ?url= parameter, "u9" is in no chapter list).
ChapterUrls == {"u1", "u2", "u3"}
ReaderUrls  == ChapterUrls \cup {"", "u9"}

\* A chapter list as the detail page stores it: the entry at JS index i is
\* titled by its position, so entries with equal URLs remain distinguishable.
ChapterListOf(urls) ==
    [i \in 1..Len(urls) |-> [url |-> urls[i], title |-> "Chapter@" \o ToString(i - 1)]]

UrlLists(maxLen) == UNION {[1..n -> ChapterUrls] : n \in 0..maxLen}

NullChapter == [url |-> "", title |-> "null"]

NoNav == [resolved |-> FALSE, currentIndex |-> -1,
          prevChapter |-> NullChapter, nextChapter |-> NullChapter]

\* sessionStorage current_manga: '{}' (no title) or the manga being read.
NoManga  == [title |-> "", detail_url |-> "", source |-> ""]
TheManga == [title |-> "a", detail_url |-> "d_a", source |-> ""]

BtnInitial == [display |-> "initial", href |-> ""]

\* updateChapterNavigation, one direction: a truthy URL shows the button and
\* points it at the chapter, anything else hides it.
ButtonFor(url) ==
    IF url # "" THEN [display |-> "block", href |-> url]
    ELSE [display |-> "none", href |-> ""]

PrevChapterAt_Newer(list, currentIndex) ==
    IF currentIndex > 0 THEN list[(currentIndex - 1) + 1] ELSE NullChapter

\* currentIndex, prevChapter and nextChapter of handleReaderPage.
PrevChapterAt(list, currentIndex) ==
    IF currentIndex < Len(list) - 1 THEN list[(currentIndex + 1) + 1] ELSE NullChapter

NextChapterAt_Older(list, currentIndex) ==
    IF currentIndex < Len(list) - 1 THEN list[(currentIndex + 1) + 1] ELSE NullChapter

NextChapterAt(list, currentIndex) ==
    IF currentIndex > 0 THEN list[(currentIndex - 1) + 1] ELSE NullChapter

CurrentIndexOf_Last(list, url) ==
    LET hits == {i \in DOMAIN list : list[i].url = url}
    IN  IF hits = {} THEN -1
        ELSE (CHOOSE i \in hits : \A j \in hits : j <= i) - 1

CurrentIndexOf(list, url) ==
    LET IsCurrent(chapter) == chapter.url = url
    IN  FindIndex({i \in DOMAIN list : IsCurrent(list[i])})

\* The <img> elements displayChapterImages and preloadRemainingImages append.
\* Assigning img.src starts the request, so every task is created loading.
FirstImageTask(imageUrl, index) ==
    [url |-> imageUrl, ordinal |-> index + 1, className |-> "immediate-load",
     fetchPriority |-> "high", loading |-> "eager", state |-> "loading",
     mark |-> "none"]

RemainingImageTask_High(imageUrl, index) ==
    [url |-> imageUrl, ordinal |-> index + 11, className |-> "preloaded-image",
     fetchPriority |-> "high", loading |-> "eager", state |-> "loading",
     mark |-> "none"]

RemainingImageTask_Lazy(imageUrl, index) ==
    [url |-> imageUrl, ordinal |-> index + 11, className |-> "preloaded-image",
     fetchPriority |-> "low", loading |-> "lazy", state |-> "pending",
     mark |-> "none"]

RemainingImageTask(imageUrl, index) ==
    [url |-> imageUrl, ordinal |-> index + 11, className |-> "preloaded-image",
     fetchPriority |-> "low", loading |-> "eager", state |-> "loading",
     mark |-> "none"]

ScheduleImages(images) ==
    LET firstImages     == Slice(images, 0, ImmediateCount)
        remainingImages == Slice(images, ImmediateCount, Len(images))
    IN  [i \in 1..Len(firstImages) |-> FirstImageTask(firstImages[i], i - 1)]
        \o [i \in 1..Len(remainingImages) |->
               RemainingImageTask(remainingImages[i], i - 1)]

\* img.onload / img.onerror of the two tiers.
TaskLoaded(task) == [task EXCEPT !.state = "loaded", !.mark = "loaded"]

TaskFailed(task) ==
    IF task.className = "immediate-load"
    THEN [task EXCEPT !.state = "failed"]
    ELSE [task EXCEPT !.state = "failed", !.mark = "error"]

\* saveReadingProgress: the list it leaves in AppState.readingHistory.
ContinueAfterSave(list, mangaData, url, timestamp) ==
    LET entry == [title |-> mangaData.title, detail_url |-> mangaData.detail_url,
                  chapter_url |-> url, timestamp |-> timestamp]
        Other(e) == e.detail_url # entry.detail_url
    IN  Slice(<<entry>> \o SelectSeq(list, Other), 0, RecentCap)

\* saveReadingProgress(mangaData, chapterUrl, chapterTitle), as a call of its
\* own.  The reader page is its only caller, so the homepage refresh at the
\* end (AppState.currentPage === 'home') does not run.  localStorage.setItem
\* is not guarded: when it throws, the list in memory is already replaced.
SaveReadingProgress(mangaData, url) ==
    \E timestamp \in ClockReadings(now) :
        LET saved == ContinueAfterSave(readingHistory, mangaData, url, timestamp)
        IN  /\ readingHistory' = saved
            /\ now' = timestamp
            /\ localStorage' =
                  IF storageFull THEN localStorage
                  ELSE [localStorage EXCEPT ![KeyContinue] = Stringify(saved)]
            /\ lastOp' = [name |-> "saveReadingProgress",
                          title |-> mangaData.title,
                          returned |-> IF storageFull THEN "throws"
                                       ELSE "undefined",
                          value |-> [before |-> readingHistory]]
            /\ UNCHANGED storageFull
            /\ UNCHANGED <<readerVars, scrollVars, genreVars, requestVars, detailVars, searchVars>>

InitReader(readerUrls, urlLists, mangas, imageCounts) ==
    /\ readerPc = "start"
    /\ chapterUrl \in readerUrls
    /\ \E urls \in urlLists : chapterList = ChapterListOf(urls)
    /\ \E n \in imageCounts : imageUrls = [i \in 1..n |-> "img" \o ToString(i)]
    /\ currentManga \in mangas
    /\ container = "blank"
    /\ readerTitle = "initial"
    /\ tasks = <<>>
    /\ nav = NoNav
    /\ prevBtn = BtnInitial
    /\ nextBtn = BtnInitial
    /\ endNav = "initial"

ReaderIdle ==
    /\ readerPc = "idle"
    /\ chapterUrl = ""
    /\ chapterList = <<>>
    /\ imageUrls = <<>>
    /\ currentManga = NoManga
    /\ container = "blank"
    /\ readerTitle = "initial"
    /\ tasks = <<>>
    /\ nav = NoNav
    /\ prevBtn = BtnInitial
    /\ nextBtn = BtnInitial
    /\ endNav = "initial"

\* handleReaderPage up to its await: no URL is an error, otherwise the
\* loading state is shown and the chapter request is sent.
ReaderStart ==
    /\ readerPc = "start"
    /\ IF chapterUrl = ""
       THEN /\ container' = "error"
            /\ readerPc' = "done"
       ELSE /\ container' = "loading"
            /\ readerPc' = "awaiting"
    /\ UNCHANGED <<chapterUrl, chapterList, imageUrls, currentManga, readerTitle,
                   tasks, nav, prevBtn, nextBtn, endNav>>
    /\ UNCHANGED <<storeVars, scrollVars, genreVars, requestVars, detailVars, searchVars>>

\* showBasicChapterInfo sets the title from the URL and then reads `source`,
\* which is declared in handleReaderPage only: the ReferenceError leaves the
\* buttons and the end-of-chapter navigation as they were and is caught by
\* handleReaderPage, which replaces the container's content by the error state.
BasicInfoThrows == TRUE

\* handleReaderPage after its await.
ReaderResponse(kind) ==
    /\ readerPc = "awaiting"
    /\ readerPc' = "done"
    /\ UNCHANGED <<chapterUrl, chapterList, imageUrls, currentManga>>
    /\ UNCHANGED <<storageFull, lastOp, scrollVars, genreVars, requestVars, detailVars, searchVars>>
    /\ IF MakeApiRequestThrows(kind)
       THEN /\ container' = "error"
            /\ UNCHANGED <<readerTitle, tasks, nav, prevBtn, nextBtn, endNav,
                           localStorage, now, readingHistory>>
       ELSE \E timestamp \in ClockReadings(now) :
            LET shown == IF imageUrls = <<>> THEN "empty" ELSE "images"
                saved == IF currentManga.title # ""
                         THEN ContinueAfterSave(readingHistory, currentManga,
                                                chapterUrl, timestamp)
                         ELSE readingHistory
                saveThrows   == currentManga.title # "" /\ storageFull
                currentIndex == CurrentIndexOf(chapterList, chapterUrl)
                found        == Len(chapterList) > 0 /\ currentIndex # -1
                prevChapter  == PrevChapterAt(chapterList, currentIndex)
                nextChapter  == NextChapterAt(chapterList, currentIndex)
            IN  \* displayChapterImages(chapterResult.image_urls, container)
                /\ tasks' = ScheduleImages(imageUrls)
                \* saveReadingProgress(mangaData, chapterUrl, chapterTitle)
                /\ readingHistory' = saved
                /\ now' = IF currentManga.title # "" THEN timestamp ELSE now
                /\ localStorage' =
                      IF currentManga.title # "" /\ ~storageFull
                      THEN [localStorage EXCEPT ![KeyContinue] = Stringify(saved)]
                      ELSE localStorage
                /\ IF saveThrows
                   THEN /\ container' = "error"
                        /\ UNCHANGED <<readerTitle, nav, prevBtn, nextBtn, endNav>>
                   ELSE IF found
                   THEN /\ readerTitle' = chapterList[currentIndex + 1].title
                        /\ nav' = [resolved |-> TRUE, currentIndex |-> currentIndex,
                                   prevChapter |-> prevChapter,
                                   nextChapter |-> nextChapter]
                        /\ prevBtn' = ButtonFor(prevChapter.url)
                        /\ nextBtn' = ButtonFor(nextChapter.url)
                        /\ endNav' = "flex"
                        /\ container' = shown
                   ELSE /\ readerTitle' = "basic"
                        /\ nav' = NoNav
                        /\ IF BasicInfoThrows
                           THEN /\ container' = "error"
                                /\ UNCHANGED <<prevBtn, nextBtn, endNav>>
                           ELSE /\ prevBtn' = ButtonFor("")
                                /\ nextBtn' = ButtonFor("")
                                /\ endNav' = "none"
                                /\ container' = shown

ImageLoads_AfterFailure(i) ==
    /\ i \in DOMAIN tasks
    /\ tasks[i].state \in {"loading", "failed"}
    /\ tasks' = [tasks EXCEPT ![i] = TaskLoaded(tasks[i])]
    /\ UNCHANGED <<readerPc, chapterUrl, chapterList, imageUrls, currentManga,
                   container, readerTitle, nav, prevBtn, nextBtn, endNav>>
    /\ UNCHANGED <<storeVars, scrollVars, genreVars, requestVars, detailVars, searchVars>>

\* img.onload of task i
ImageLoads(i) ==
    /\ i \in DOMAIN tasks
    /\ tasks[i].state = "loading"
    /\ tasks' = [tasks EXCEPT ![i] = TaskLoaded(tasks[i])]
    /\ UNCHANGED <<readerPc, chapterUrl, chapterList, imageUrls, currentManga,
                   container, readerTitle, nav, prevBtn, nextBtn, endNav>>
    /\ UNCHANGED <<storeVars, scrollVars, genreVars, requestVars, detailVars, searchVars>>

ImageFails_AbortsChapter(i) ==
    /\ i \in DOMAIN tasks
    /\ tasks[i].state = "loading"
    /\ tasks' = [tasks EXCEPT ![i] = TaskFailed(tasks[i])]
    /\ container' = "error"
    /\ UNCHANGED <<readerPc, chapterUrl, chapterList, imageUrls, currentManga,
                   readerTitle, nav, prevBtn, nextBtn, endNav>>
    /\ UNCHANGED <<storeVars, scrollVars, genreVars, requestVars, detailVars, searchVars>>

\* img.onerror of task i
ImageFails(i) ==
    /\ i \in DOMAIN tasks
    /\ tasks[i].state = "loading"
    /\ tasks' = [tasks EXCEPT ![i] = TaskFailed(tasks[i])]
    /\ UNCHANGED <<readerPc, chapterUrl, chapterList, imageUrls, currentManga,
                   container, readerTitle, nav, prevBtn, nextBtn, endNav>>
    /\ UNCHANGED <<storeVars, scrollVars, genreVars, requestVars, detailVars, searchVars>>

-----------------------------------------------------------------------------
(* Homepage updates grid: loadHomepageContent, setupProgressiveScroll      *)

MaxList  == 42         \* longest full result list
MaxQuick == 21         \* longest quick-load list

QuickShown       == 10 \* quickResult.data.slice(0, 10)
FullShown        == 20 \* result.data.slice(0, 20)
QuickEnough      == 20 \* quickResult.data.length < 20
StartAfterFull   == 20 \* setupProgressiveScroll(updatesGrid, 20)
StartAfterQuick  == 10 \* setupProgressiveScroll(updatesGrid, 10)
BatchSize        == 20 \* allData.slice(currentOffset, currentOffset + 20)

\* The entries of a result list of length n: entry i of the catalog.
Catalog(n) == [i \in 1..n |-> i]

\* The entries of a /quick-load response of length n.  It comes from another
\* endpoint than the full list: it may start at the same entry (first = 1)
\* or at a later one.
QuickCatalog(n, first) == [i \in 1..n |-> i + first - 1]

NoResult == [settled |-> "null", hasData |-> FALSE, data |-> <<>>]

NoCursor == [created |-> FALSE, isLoading |-> FALSE, hasMoreData |-> FALSE,
             currentOffset |-> 0, startOffset |-> 0, appended |-> <<>>]

\* The closure variables setupProgressiveScroll starts with.
NewCursor(startOffset) ==
    [created |-> TRUE, isLoading |-> FALSE, hasMoreData |-> TRUE,
     currentOffset |-> startOffset, startOffset |-> startOffset,
     appended |-> <<>>]

GridLoading == [state |-> "loading", cards |-> <<>>]
GridError   == [state |-> "error", cards |-> <<>>]
GridCards(list) == [state |-> "cards", cards |-> list]

HomeIdle ==
    /\ homePc = "idle"
    /\ quickResult = NoResult
    /\ allMangaData = <<>>
    /\ updatesGrid = GridLoading
    /\ cursor = NoCursor
    /\ timerPending = FALSE
    /\ lastCall = "none"

\* What the updates part of loadHomepageContent starts from: both grids show
\* the loading state and loadComickGenres has returned.
InitHome ==
    /\ homePc = "quick"
    /\ quickResult = NoResult
    /\ allMangaData = <<>>
    /\ updatesGrid = GridLoading
    /\ cursor = NoCursor
    /\ timerPending = FALSE
    /\ lastCall = "none"

\* The quick-load request settles; the unified-popular request is sent.
QuickLoadSettles(kind, hasData, n, first) ==
    /\ homePc = "quick"
    /\ homePc' = "unified"
    /\ IF MakeApiRequestThrows(kind)
       THEN UNCHANGED <<quickResult, updatesGrid>>
       ELSE /\ quickResult' = [settled |-> "ok", hasData |-> hasData,
                               data |-> IF hasData THEN QuickCatalog(n, first)
                                        ELSE <<>>]
            /\ IF hasData /\ n > 0
               THEN updatesGrid' =
                       GridCards(Slice(QuickCatalog(n, first), 0, QuickShown))
               ELSE UNCHANGED updatesGrid
    /\ UNCHANGED <<allMangaData, cursor, timerPending, lastCall, infCursor, inFlight>>
    /\ UNCHANGED <<storeVars, readerVars, genreVars, requestVars, detailVars, searchVars>>

\* The part of loadHomepageContent that follows the full result.
ShowFullResult(data) ==
    IF Len(data) > 0
    THEN /\ allMangaData' = data
         /\ IF quickResult.settled = "null"
            THEN /\ updatesGrid' = GridCards(Slice(data, 0, FullShown))
                 /\ cursor' = NewCursor(StartAfterFull)
                 /\ timerPending' = TRUE
                 /\ homePc' = "done"
            ELSE IF ~quickResult.hasData
            THEN \* quickResult.data.length of a missing data: TypeError, caught
                 /\ updatesGrid' = GridError
                 /\ UNCHANGED <<cursor, timerPending>>
                 /\ homePc' = "done"
            ELSE IF Len(quickResult.data) < QuickEnough
            THEN /\ updatesGrid' = GridCards(Slice(data, 0, FullShown))
                 /\ cursor' = NewCursor(StartAfterFull)
                 /\ timerPending' = TRUE
                 /\ homePc' = "done"
            ELSE /\ cursor' = NewCursor(StartAfterQuick)
                 /\ timerPending' = TRUE
                 /\ UNCHANGED updatesGrid
                 /\ homePc' = "done"
    ELSE /\ updatesGrid' = GridError
         /\ UNCHANGED <<allMangaData, cursor, timerPending>>
         /\ homePc' = "done"

\* The unified-popular request settles.
UnifiedSettles(kind, n) ==
    /\ homePc = "unified"
    /\ IF MakeApiRequestThrows(kind)
       THEN /\ updatesGrid' = GridError
            /\ homePc' = "done"
            /\ UNCHANGED <<allMangaData, cursor, timerPending>>
       ELSE IF n = 0
       THEN /\ homePc' = "popular"
            /\ UNCHANGED <<allMangaData, updatesGrid, cursor, timerPending>>
       ELSE ShowFullResult(Catalog(n))
    /\ UNCHANGED <<quickResult, lastCall, infCursor, inFlight>>
    /\ UNCHANGED <<storeVars, readerVars, genreVars, requestVars, detailVars, searchVars>>

\* The fallback request to /popular settles.
PopularSettles(kind, n) ==
    /\ homePc = "popular"
    /\ IF MakeApiRequestThrows(kind)
       THEN /\ updatesGrid' = GridError
            /\ homePc' = "done"
            /\ UNCHANGED <<allMangaData, cursor, timerPending>>
       ELSE ShowFullResult(Catalog(n))
    /\ UNCHANGED <<quickResult, lastCall, infCursor, inFlight>>
    /\ UNCHANGED <<storeVars, readerVars, genreVars, requestVars, detailVars, searchVars>>

CursorBusy_IgnoresLoading(c) == ~c.hasMoreData

\* if (isLoading || !hasMoreData) return;
CursorBusy(c) == c.isLoading \/ ~c.hasMoreData

\* entry.isIntersecting && hasMoreData && !isLoading  /  hasMoreData && !isLoading
CursorReady(c) == c.hasMoreData /\ ~c.isLoading

CursorAfterBatch_SkipsOne(c, allData) ==
    LET nextBatch == Slice(allData, c.currentOffset + 1, c.currentOffset + BatchSize)
    IN  IF Len(nextBatch) > 0
        THEN [c EXCEPT !.appended = @ \o nextBatch,
                       !.currentOffset = @ + Len(nextBatch) + 1,
                       !.hasMoreData = (c.currentOffset + Len(nextBatch) + 1) < Len(allData),
                       !.isLoading = FALSE]
        ELSE [c EXCEPT !.hasMoreData = FALSE, !.isLoading = FALSE]

\* The cursor after the body of loadMoreContent has run on the stored data.
CursorAfterBatch_EmptyKeepsMore(c, allData) ==
    LET nextBatch == Slice(allData, c.currentOffset, c.currentOffset + BatchSize)
    IN  IF Len(nextBatch) > 0
        THEN [c EXCEPT !.appended = @ \o nextBatch,
                       !.currentOffset = @ + Len(nextBatch),
                       !.hasMoreData = (c.currentOffset + Len(nextBatch)) < Len(allData),
                       !.isLoading = FALSE]
        ELSE [c EXCEPT !.isLoading = FALSE]

CursorAfterBatch(c, allData) ==
    LET nextBatch == Slice(allData, c.currentOffset, c.currentOffset + BatchSize)
    IN  IF Len(nextBatch) > 0
        THEN [c EXCEPT !.appended = @ \o nextBatch,
                       !.currentOffset = @ + Len(nextBatch),
                       !.hasMoreData = (c.currentOffset + Len(nextBatch)) < Len(allData),
                       !.isLoading = FALSE]
        ELSE [c EXCEPT !.hasMoreData = FALSE, !.isLoading = FALSE]

\* loadMoreContent of setupProgressiveScroll: it has no await, so the call runs
\* to its finally block before any other callback.
ProgressiveLoadMore ==
    IF CursorBusy(cursor)
    THEN /\ lastCall' = "noop"
         /\ UNCHANGED <<cursor, updatesGrid>>
    ELSE LET after == CursorAfterBatch(cursor, allMangaData)
         IN  /\ cursor' = after
             /\ updatesGrid' =
                   [updatesGrid EXCEPT !.cards =
                       @ \o SubSeq(after.appended, Len(cursor.appended) + 1,
                                   Len(after.appended))]
             /\ lastCall' = IF Len(after.appended) > Len(cursor.appended)
                            THEN "loaded" ELSE "empty"

\* A call of loadMoreContent.
LoadMoreContent ==
    /\ cursor.created
    /\ ProgressiveLoadMore
    /\ UNCHANGED <<homePc, quickResult, allMangaData, timerPending, infCursor, inFlight>>
    /\ UNCHANGED <<storeVars, readerVars, genreVars, requestVars, detailVars, searchVars>>

\* The IntersectionObserver callback for one entry.
ObserverFires(isIntersecting) ==
    /\ cursor.created
    /\ IF isIntersecting /\ CursorReady(cursor)
       THEN ProgressiveLoadMore
       ELSE /\ lastCall' = "skipped"
            /\ UNCHANGED <<cursor, updatesGrid>>
    /\ UNCHANGED <<homePc, quickResult, allMangaData, timerPending, infCursor, inFlight>>
    /\ UNCHANGED <<storeVars, readerVars, genreVars, requestVars, detailVars, searchVars>>

\* The setTimeout(..., 1000) callback.
TimerFires ==
    /\ cursor.created
    /\ timerPending
    /\ timerPending' = FALSE
    /\ IF CursorReady(cursor)
       THEN ProgressiveLoadMore
       ELSE /\ lastCall' = "skipped"
            /\ UNCHANGED <<cursor, updatesGrid>>
    /\ UNCHANGED <<homePc, quickResult, allMangaData, infCursor, inFlight>>
    /\ UNCHANGED <<storeVars, readerVars, genreVars, requestVars, detailVars, searchVars>>

-----------------------------------------------------------------------------
(* setupInfiniteScroll: the cursor that pages through /load-more           *)

MaxInfItems == 13      \* most items the server hands out after the first 8

InfStartOffset == 8    \* let currentOffset = 8
InfLimit       == 12   \* /load-more?offset=...&limit=12

NoInfCursor == [created |-> FALSE, isLoading |-> FALSE, hasMoreData |-> FALSE,
                currentOffset |-> 0, rendered |-> 0, timerPending |-> FALSE,
                lastCall |-> "none"]

\* The closure variables setupInfiniteScroll starts with; `rendered` counts the
\* cards inserted before the loading indicator.
NewInfCursor ==
    [created |-> TRUE, isLoading |-> FALSE, hasMoreData |-> TRUE,
     currentOffset |-> InfStartOffset, rendered |-> 0, timerPending |-> TRUE,
     lastCall |-> "none"]

InfIdle ==
    /\ infCursor = NoInfCursor
    /\ inFlight = 0

\* loadMoreContent of setupInfiniteScroll up to its await.
InfiniteLoadMore ==
    IF CursorBusy(infCursor)
    THEN /\ infCursor' = [infCursor EXCEPT !.lastCall = "noop"]
         /\ UNCHANGED inFlight
    ELSE /\ infCursor' = [infCursor EXCEPT !.isLoading = TRUE, !.lastCall = "started"]
         /\ inFlight' = inFlight + 1

\* A call of loadMoreContent.
InfLoadMoreContent ==
    /\ infCursor.created
    /\ InfiniteLoadMore
    /\ UNCHANGED <<homePc, quickResult, allMangaData, updatesGrid, cursor,
                   timerPending, lastCall>>
    /\ UNCHANGED <<storeVars, readerVars, genreVars, requestVars, detailVars, searchVars>>

\* The IntersectionObserver callback for one entry.
InfObserverFires(isIntersecting) ==
    /\ infCursor.created
    /\ IF isIntersecting /\ CursorReady(infCursor)
       THEN InfiniteLoadMore
       ELSE /\ infCursor' = [infCursor EXCEPT !.lastCall = "skipped"]
            /\ UNCHANGED inFlight
    /\ UNCHANGED <<homePc, quickResult, allMangaData, updatesGrid, cursor,
                   timerPending, lastCall>>
    /\ UNCHANGED <<storeVars, readerVars, genreVars, requestVars, detailVars, searchVars>>

\* The setTimeout(..., 1000) callback.
InfTimerFires ==
    /\ infCursor.created
    /\ infCursor.timerPending
    /\ IF CursorReady(infCursor)
       THEN /\ infCursor' = [infCursor EXCEPT !.isLoading = TRUE,
                                              !.lastCall = "started",
                                              !.timerPending = FALSE]
            /\ inFlight' = inFlight + 1
       ELSE /\ infCursor' = [infCursor EXCEPT !.lastCall = "skipped",
                                              !.timerPending = FALSE]
            /\ UNCHANGED inFlight
    /\ UNCHANGED <<homePc, quickResult, allMangaData, updatesGrid, cursor,
                   timerPending, lastCall>>
    /\ UNCHANGED <<storeVars, readerVars, genreVars, requestVars, detailVars, searchVars>>

\* The cursor after loadMoreContent has resumed from its await.
InfCursorAfterResponse(c, kind, n, serverHasMore) ==
    IF MakeApiRequestThrows(kind)
    THEN [c EXCEPT !.hasMoreData = FALSE, !.isLoading = FALSE,
                   !.lastCall = "failed"]
    ELSE IF n > 0
    THEN [c EXCEPT !.rendered = @ + n,
                   !.currentOffset = @ + n,
                   !.hasMoreData = serverHasMore \/ n = InfLimit,
                   !.isLoading = FALSE,
                   !.lastCall = "loaded"]
    ELSE [c EXCEPT !.hasMoreData = FALSE, !.isLoading = FALSE,
                   !.lastCall = "empty"]

\* A /load-more request settles with n items and the server's has_more.
InfResponse(kind, n, serverHasMore) ==
    /\ inFlight > 0
    /\ infCursor.currentOffset + n <= InfStartOffset + MaxInfItems
    /\ inFlight' = inFlight - 1
    /\ infCursor' = InfCursorAfterResponse(infCursor, kind, n, serverHasMore)
    /\ UNCHANGED <<homePc, quickResult, allMangaData, updatesGrid, cursor,
                   timerPending, lastCall>>
    /\ UNCHANGED <<storeVars, readerVars, genreVars, requestVars, detailVars, searchVars>>

-----------------------------------------------------------------------------
(* loadComickGenres: the concurrent per-genre fan-out                      *)

MaxPerGenre == 2       \* most comics one genre request returns

TrendingShown == 6     \* allComickComics.slice(0, 6)

\* comickGenres, in the order of the array.
Genres == <<"Action", "Romance", "Drama", "Comedy", "Fantasy", "Isekai">>
GenreIds == DOMAIN Genres

\* What the upstream does with a genre request in this model.
GenreResponseKinds == {"success", "http_error", "timeout"}

\* The comics a genre's endpoint returns: comic i of that genre.
GenreComics(g, n) == [i \in 1..n |-> Genres[g] \o "#" \o ToString(i)]

PendingFetch == [state |-> "pending", kind |-> "none", returned |-> <<>>,
                 comics |-> <<>>, success |-> FALSE]

\* What the async function of genrePromises resolves to: the response's data
\* (or []) on success, no comics when makeApiRequest threw.
GenreResult(kind, data) ==
    IF MakeApiRequestThrows(kind)
    THEN [state |-> "settled", kind |-> kind, returned |-> <<>>,
          comics |-> <<>>, success |-> FALSE]
    ELSE [state |-> "settled", kind |-> kind, returned |-> data,
          comics |-> data, success |-> TRUE]

\* genreResults.forEach(... allComickComics.concat(genreResult.comics))
RECURSIVE CollectComics(_, _)
CollectComics(results, g) ==
    IF g > Len(Genres) THEN <<>>
    ELSE (IF Len(results[g].comics) > 0 THEN results[g].comics ELSE <<>>)
         \o CollectComics(results, g + 1)

GenresIdle ==
    /\ genrePc = "idle"
    /\ genreFetch = [g \in GenreIds |-> PendingFetch]
    /\ trendingGrid = GridLoading
    /\ allComickComics = <<>>
    /\ firstSettled = 0

\* loadHomepageContent has shown the loading state; loadComickGenres is
\* about to run.
InitGenres ==
    /\ genrePc = "start"
    /\ genreFetch = [g \in GenreIds |-> PendingFetch]
    /\ trendingGrid = GridLoading
    /\ allComickComics = <<>>
    /\ firstSettled = 0

\* loadComickGenres up to Promise.all: every genre request is sent.
GenresStart ==
    /\ genrePc = "start"
    /\ genrePc' = "fetching"
    /\ UNCHANGED <<genreFetch, trendingGrid, allComickComics, firstSettled>>
    /\ UNCHANGED <<storeVars, readerVars, scrollVars, requestVars, detailVars, searchVars>>

\* One genre request settles.
GenreSettles(g, kind, n) ==
    /\ genrePc = "fetching"
    /\ genreFetch[g].state = "pending"
    /\ genreFetch' = [genreFetch EXCEPT ![g] =
                         GenreResult(kind, IF kind = "success"
                                           THEN GenreComics(g, n) ELSE <<>>)]
    /\ firstSettled' = IF firstSettled = 0 THEN g ELSE firstSettled
    /\ UNCHANGED <<genrePc, trendingGrid, allComickComics>>
    /\ UNCHANGED <<storeVars, readerVars, scrollVars, requestVars, detailVars, searchVars>>

AllGenresSettled == \A g \in GenreIds : genreFetch[g].state = "settled"

GenresMerge_FailFast ==
    /\ genrePc = "fetching"
    /\ AllGenresSettled
    /\ genrePc' = "done"
    /\ LET all == CollectComics(genreFetch, 1)
       IN  IF Len(all) > 0 /\ \A g \in GenreIds : genreFetch[g].success
           THEN /\ trendingGrid' = GridCards(Slice(all, 0, TrendingShown))
                /\ allComickComics' = all
           ELSE UNCHANGED <<trendingGrid, allComickComics>>
    /\ UNCHANGED <<genreFetch, firstSettled>>
    /\ UNCHANGED <<storeVars, readerVars, scrollVars, requestVars, detailVars, searchVars>>

\* Promise.all has resolved: the results are merged and displayed.
GenresMerge ==
    /\ genrePc = "fetching"
    /\ AllGenresSettled
    /\ genrePc' = "done"
    /\ LET all == CollectComics(genreFetch, 1)
       IN  IF Len(all) > 0
           THEN /\ trendingGrid' = GridCards(Slice(all, 0, TrendingShown))
                /\ allComickComics' = all
           ELSE UNCHANGED <<trendingGrid, allComickComics>>
    /\ UNCHANGED <<genreFetch, firstSettled>>
    /\ UNCHANGED <<storeVars, readerVars, scrollVars, requestVars, detailVars, searchVars>>

-----------------------------------------------------------------------------
(* One fetch followed through makeApiRequest and the function around it    *)

MaxRequests == 3       \* calls followed one after another
MaxData     == 2       \* longest data array of a response

\* The functions a fetch is made through: makeApiRequest called directly,
\* fetchMangaByGenre, fetchMangaFromSource, and the per-genre async function
\* of loadComickGenres.
Callers == {"makeApiRequest", "fetchMangaByGenre", "fetchMangaFromSource",
            "loadComickGenres"}

\* What a caller's function hands back:
\*   "error"  it threw (error holds the message)
\*   "data"   the response object of makeApiRequest (n entries in data)
\*   "list"   an array of n entries (flag: the success field beside it)
\*   "null"   null
NoValue == [kind |-> "none", n |-> 0, flag |-> "none", error |-> "none"]

NoRequest == [pc |-> "idle", caller |-> "none", timer |-> "none",
              envelope |-> "none", result |-> NoValue, count |-> 0]

RequestIdle == request = NoRequest

\* How the promise of makeApiRequest settles.
Rejected(message) == [settled |-> "rejected", message |-> message, n |-> 0]
Resolved(n)       == [settled |-> "resolved", message |-> "none", n |-> n]

\* The try/catch (or its absence) around the makeApiRequest call.
CallerResult(caller, outcome) ==
    CASE caller = "makeApiRequest" ->
            IF outcome.settled = "rejected"
            THEN [kind |-> "error", n |-> 0, flag |-> "none", error |-> outcome.message]
            ELSE [kind |-> "data", n |-> outcome.n, flag |-> "true", error |-> "none"]
      [] caller = "fetchMangaByGenre" ->
            IF outcome.settled = "rejected"
            THEN [kind |-> "list", n |-> 0, flag |-> "none", error |-> "none"]
            ELSE [kind |-> "list", n |-> outcome.n, flag |-> "none", error |-> "none"]
      [] caller = "fetchMangaFromSource" ->
            IF outcome.settled = "rejected"
            THEN [kind |-> "null", n |-> 0, flag |-> "none", error |-> "none"]
            ELSE [kind |-> "data", n |-> outcome.n, flag |-> "none", error |-> "none"]
      [] caller = "loadComickGenres" ->
            IF outcome.settled = "rejected"
            THEN [kind |-> "list", n |-> 0, flag |-> "false", error |-> "none"]
            ELSE [kind |-> "list", n |-> outcome.n, flag |-> "true", error |-> "none"]

\* The request once makeApiRequest has settled and its caller has returned.
Settled(r, envelope, timer, outcome) ==
    [r EXCEPT !.pc = "settled", !.envelope = envelope, !.timer = timer,
              !.result = CallerResult(r.caller, outcome)]

\* A fetch function is called: the timer is armed and fetch() is sent.
RequestStart(caller) ==
    /\ request.pc \in {"idle", "settled"}
    /\ request.count < MaxRequests
    /\ request' = [pc |-> "sent", caller |-> caller, timer |-> "armed",
                   envelope |-> "none", result |-> NoValue,
                   count |-> request.count + 1]
    /\ UNCHANGED <<storeVars, readerVars, scrollVars, genreVars, detailVars, searchVars>>

\* fetch() rejects (network failure): the catch clears the timer and rethrows.
NetworkFails ==
    /\ request.pc = "sent"
    /\ request' = Settled(request, "network_error", "cleared",
                          Rejected("Failed to fetch"))
    /\ UNCHANGED <<storeVars, readerVars, scrollVars, genreVars, detailVars, searchVars>>

\* fetch() resolves with the response headers: the timer is cleared, then a
\* response that is not ok throws and an ok one goes on to response.json().
HeadersArrive(ok) ==
    /\ request.pc = "sent"
    /\ IF ok
       THEN request' = [request EXCEPT !.pc = "body", !.timer = "cleared",
                                       !.envelope = "headers_ok"]
       ELSE request' = Settled(request, "http_not_ok", "cleared", Rejected("HTTP"))
    /\ UNCHANGED <<storeVars, readerVars, scrollVars, genreVars, detailVars, searchVars>>

\* The REQUEST_TIMEOUT timer fires: controller.abort() rejects fetch() with
\* an AbortError, which the catch turns into the timeout error.
TimeoutFires ==
    /\ request.timer = "armed"
    /\ request' = Settled(request, "none", "fired",
                          Rejected("Request timed out. Please try again."))
    /\ UNCHANGED <<storeVars, readerVars, scrollVars, genreVars, detailVars, searchVars>>

BodyKinds == {"invalid_json", "success_false", "success"}

\* response.json() settles: the body has arrived.
BodyArrives(kind, n) ==
    /\ request.pc = "body"
    /\ request' =
          Settled(request, kind, request.timer,
                  CASE kind = "invalid_json"  -> Rejected("SyntaxError")
                    [] kind = "success_false" -> Rejected("API request failed")
                    [] kind = "success"       -> Resolved(n))
    /\ UNCHANGED <<storeVars, readerVars, scrollVars, genreVars, detailVars, searchVars>>

-----------------------------------------------------------------------------
(* Infinite scroll with its /load-more request made through makeApiRequest *)

\* A call of loadMoreContent of setupInfiniteScroll up to its await: past
\* the guard it sets isLoading and calls makeApiRequest, which arms the
\* timer and sends fetch().
GuardedLoadMore ==
    /\ infCursor.created
    /\ IF CursorBusy(infCursor)
       THEN /\ infCursor' = [infCursor EXCEPT !.lastCall = "noop"]
            /\ UNCHANGED <<inFlight, request>>
       ELSE /\ request.pc \in {"idle", "settled"}
            /\ request.count < MaxRequests
            /\ InfiniteLoadMore
            /\ request' = [pc |-> "sent", caller |-> "makeApiRequest",
                           timer |-> "armed", envelope |-> "none",
                           result |-> NoValue, count |-> request.count + 1]
    /\ UNCHANGED <<homePc, quickResult, allMangaData, updatesGrid, cursor,
                   timerPending, lastCall>>
    /\ UNCHANGED <<storeVars, readerVars, genreVars, detailVars, searchVars>>

\* loadMoreContent resumes from its await once makeApiRequest has settled:
\* the try, the catch and the finally.
PageRequestResumes(serverHasMore) ==
    /\ inFlight > 0
    /\ request.pc = "settled"
    /\ inFlight' = inFlight - 1
    /\ infCursor' =
          InfCursorAfterResponse(infCursor,
                                 IF request.result.kind = "error"
                                 THEN "network_error" ELSE "success",
                                 request.result.n, serverHasMore)
    /\ UNCHANGED <<homePc, quickResult, allMangaData, updatesGrid, cursor,
                   timerPending, lastCall>>
    /\ UNCHANGED <<storeVars, readerVars, genreVars, requestVars, detailVars, searchVars>>

-----------------------------------------------------------------------------
(* Detail page: displayMangaDetails and the chapter sort buttons           *)

MaxListed == 4

Reverse(s) == [i \in 1..Len(s) |-> s[Len(s) - i + 1]]

NoChapters == [defined |-> FALSE, list |-> <<>>]

\* The sources of the source selector, and what /unified-details returns
\* for the displayed title from each of them.
Sources == {"AsuraScanz", "Webtoons", "Comick"}

SourceUrls(source) ==
    CASE source = "AsuraScanz" -> <<"u1", "u2">>
      [] source = "Webtoons"   -> <<"u3">>
      [] OTHER                 -> <<"u2", "u3", "u1">>

NoData == [source |-> "", chapters |-> <<>>]

DetailsFrom(source) ==
    [source |-> source, chapters |-> ChapterListOf(SourceUrls(source))]

DetailIdle ==
    /\ mangaChapters = NoChapters
    /\ chapterListView = <<>>
    /\ sortActive = "none"
    /\ mangaContent = "blank"
    /\ currentMangaSource = ""
    /\ currentMangaData = NoData
    /\ activeSource = "none"
    /\ sourceFetches = [s \in Sources |-> "idle"]

\* renderChapterList / the chaptersHtml of displayMangaDetails: one link per
\* chapter, in the order of the array it is given.
RenderChapterList(chapters, source) ==
    [i \in 1..Len(chapters) |->
        [url |-> chapters[i].url, source |-> source, title |-> chapters[i].title]]

ChaptersAfterSortAsc_InPlace(chapters) == Reverse(chapters)

\* window.mangaChapters after the ascending click: the handler reverses a
\* copy ([...window.mangaChapters].reverse()), the array itself is untouched.
ChaptersAfterSortAsc(chapters) == chapters

\* displayMangaDetails(data) for data.chapters, newest first.
DisplayMangaDetails(chapters) ==
    /\ ~mangaChapters.defined
    /\ mangaChapters' = [defined |-> TRUE, list |-> chapters]
    /\ chapterList' = chapters
    /\ chapterListView' = RenderChapterList(chapters, DefaultSource)
    /\ sortActive' = "desc"
    /\ mangaContent' = "details"
    /\ currentMangaSource' = DefaultSource
    /\ currentMangaData' = [source |-> DefaultSource, chapters |-> chapters]
    /\ UNCHANGED <<activeSource, sourceFetches>>
    /\ UNCHANGED <<readerPc, chapterUrl, currentManga, imageUrls, container,
                   readerTitle, tasks, nav, prevBtn, nextBtn, endNav>>
    /\ UNCHANGED <<storeVars, scrollVars, genreVars, requestVars, searchVars>>

\* click on #sort-asc
SortAscClick ==
    /\ mangaChapters.defined
    /\ mangaContent = "details"
    /\ chapterListView' =
          RenderChapterList(Reverse(mangaChapters.list), currentMangaSource)
    /\ mangaChapters' = [mangaChapters EXCEPT !.list = ChaptersAfterSortAsc(@)]
    /\ sortActive' = "asc"
    /\ UNCHANGED <<mangaContent, currentMangaSource, currentMangaData,
                   activeSource, sourceFetches>>
    /\ UNCHANGED <<storeVars, readerVars, scrollVars, genreVars, requestVars, searchVars>>

\* click on #sort-desc
SortDescClick ==
    /\ mangaChapters.defined
    /\ mangaContent = "details"
    /\ chapterListView' =
          RenderChapterList(mangaChapters.list, currentMangaSource)
    /\ sortActive' = "desc"
    /\ UNCHANGED <<mangaChapters, mangaContent, currentMangaSource,
                   currentMangaData, activeSource, sourceFetches>>
    /\ UNCHANGED <<storeVars, readerVars, scrollVars, genreVars, requestVars, searchVars>>

\* click on a source button, up to the await of fetchMangaFromSource.  One
\* request per source is followed at a time.
SourceSelected(source) ==
    /\ mangaChapters.defined
    /\ sourceFetches[source] # "pending"
    /\ activeSource' = source
    /\ mangaContent' = "loading"
    /\ chapterListView' = <<>>
    /\ sortActive' = "none"
    /\ sourceFetches' = [sourceFetches EXCEPT ![source] = "pending"]
    /\ UNCHANGED <<mangaChapters, currentMangaSource, currentMangaData>>
    /\ UNCHANGED <<storeVars, readerVars, scrollVars, genreVars, requestVars, searchVars>>

\* The click handler resumes with what fetchMangaFromSource returned: the
\* response's data, or null when makeApiRequest threw.
SourceResponds(source, kind) ==
    /\ sourceFetches[source] = "pending"
    /\ IF MakeApiRequestThrows(kind)
       THEN /\ sourceFetches' = [sourceFetches EXCEPT ![source] = "failed"]
            /\ mangaContent' = "error"
            /\ chapterListView' = <<>>
            /\ sortActive' = "none"
            /\ UNCHANGED <<mangaChapters, currentMangaSource, currentMangaData,
                           chapterList>>
       ELSE LET data == DetailsFrom(source)
            IN  /\ sourceFetches' = [sourceFetches EXCEPT ![source] = "ok"]
                /\ currentMangaSource' = source
                /\ currentMangaData' = data
                /\ mangaChapters' = [defined |-> TRUE, list |-> data.chapters]
                /\ chapterList' = data.chapters
                /\ mangaContent' = "details"
                /\ chapterListView' = RenderChapterList(data.chapters, source)
                /\ sortActive' = "desc"
    /\ UNCHANGED activeSource
    /\ UNCHANGED <<readerPc, chapterUrl, currentManga, imageUrls, container,
                   readerTitle, tasks, nav, prevBtn, nextBtn, endNav>>
    /\ UNCHANGED <<storeVars, scrollVars, genreVars, requestVars, searchVars>>

-----------------------------------------------------------------------------
(* Live search: debounce, handleLiveSearch                                 *)

MaxPending == 1        \* requests of one query followed at a time

\* What the user may have typed, and String.prototype.trim of it.
InputValues == {"a", "ab", "ab ", "abc"}

Trim(value) == IF value = "ab " THEN "ab" ELSE value

Queries == {Trim(v) : v \in InputValues}

QueryLength(query) ==
    CASE query = "a" -> 1 [] query = "ab" -> 2 [] query = "abc" -> 3 [] OTHER -> 0

NoTimer == [pending |-> FALSE, value |-> ""]

EmptyDropdown == [display |-> "none", content |-> "empty", query |-> ""]

SearchIdle ==
    /\ searchTimer = NoTimer
    /\ lastSearchQuery = ""
    /\ searchFetches = [q \in Queries |-> 0]
    /\ resultsContainer = EmptyDropdown

\* An input event reaches the debounced listener: the running timer is
\* cleared and a new one started for this event.
SearchInput(value) ==
    /\ searchTimer' = [pending |-> TRUE, value |-> value]
    /\ UNCHANGED <<lastSearchQuery, searchFetches, resultsContainer>>
    /\ UNCHANGED <<storeVars, readerVars, scrollVars, genreVars, requestVars,
                   detailVars>>

\* The debounce timer fires: handleLiveSearch runs up to its await.
DebounceFires ==
    /\ searchTimer.pending
    /\ searchTimer' = NoTimer
    /\ LET query == Trim(searchTimer.value)
       IN  IF QueryLength(query) < 2
           THEN /\ resultsContainer' = [resultsContainer EXCEPT !.display = "none"]
                /\ UNCHANGED <<lastSearchQuery, searchFetches>>
           ELSE IF query = lastSearchQuery
           THEN UNCHANGED <<lastSearchQuery, searchFetches, resultsContainer>>
           ELSE /\ searchFetches[query] < MaxPending
                /\ lastSearchQuery' = query
                /\ resultsContainer' = [display |-> "block",
                                        content |-> "searching", query |-> query]
                /\ searchFetches' = [searchFetches EXCEPT ![query] = @ + 1]
    /\ UNCHANGED <<storeVars, readerVars, scrollVars, genreVars, requestVars,
                   detailVars>>

\* displaySearchResults(container, result.data) for n results of a query.
SearchResultsShown(query, n) ==
    IF n = 0 THEN "none" ELSE "results"

\* A /search request settles: handleLiveSearch resumes after its await.
SearchResponds(query, kind, n) ==
    /\ searchFetches[query] > 0
    /\ searchFetches' = [searchFetches EXCEPT ![query] = @ - 1]
    /\ resultsContainer' =
          [resultsContainer EXCEPT
              !.content = IF MakeApiRequestThrows(kind) THEN "error"
                          ELSE SearchResultsShown(query, n),
              !.query = query]
    /\ UNCHANGED <<searchTimer, lastSearchQuery>>
    /\ UNCHANGED <<storeVars, readerVars, scrollVars, genreVars, requestVars,
                   detailVars>>

-----------------------------------------------------------------------------
(* Specifications                                                          *)

\* Reading history: any sequence of addToHistory and clearHistory calls on a
\* store that holds no, HistoryCap - 1 or HistoryCap entries at the start.
\* The (title, chapter) pairs read: two pairs with the same composite id, one
\* with another id, and the oldest chapter of the serial title.
HistoryReads == {<<"a", "b_c">>, <<"a_b", "c">>, <<"a", "c">>, <<SerialTitle, "1">>}

InitHistory ==
    /\ InitStore(SerialSizes) /\ ReaderIdle /\ HomeIdle /\ InfIdle /\ GenresIdle
    /\ RequestIdle /\ SearchIdle /\ DetailIdle

NextHistory ==
    \/ \E read \in HistoryReads :
          AddToHistory([title |-> read[1], source |-> ""], read[2])
    \/ ClearHistory

SpecHistory == InitHistory /\ [][NextHistory]_vars

\* Bookmarks: any sequence of bookmark calls on a freshly initialised store.
BookmarkMangas == [title : Titles, source : SourcesIn]

InitBookmarks ==
    /\ InitStore({0}) /\ ReaderIdle /\ HomeIdle /\ InfIdle /\ GenresIdle
    /\ RequestIdle /\ SearchIdle /\ DetailIdle

NextBookmarks ==
    \/ \E mangaData \in BookmarkMangas : AddBookmark(mangaData)
    \/ \E mangaTitle \in Titles : RemoveBookmark(mangaTitle)
    \/ \E mangaTitle \in Titles, status \in StatusInputs :
          UpdateBookmarkStatus(mangaTitle, status)
    \/ \E mangaData \in BookmarkMangas : ToggleBookmark(mangaData)

SpecBookmarks == InitBookmarks /\ [][NextBookmarks]_vars

\* Reader page: one page load over every chapter list of up to MaxChapters
\* entries, with a few images.
NextReader ==
    \/ ReaderStart
    \/ \E kind \in ResponseKinds : ReaderResponse(kind)
    \/ \E i \in 1..(MaxImages + 1) : ImageLoads(i)
    \/ \E i \in 1..(MaxImages + 1) : ImageFails(i)

InitReaderPage ==
    /\ InitReader(ReaderUrls, UrlLists(MaxChapters), {NoManga, TheManga}, {0, 1, 2})
    /\ InitStore({0}) /\ HomeIdle /\ InfIdle /\ GenresIdle
    /\ RequestIdle /\ SearchIdle /\ DetailIdle

SpecReader == InitReaderPage /\ [][NextReader]_vars

\* Image loading: one page load of a chapter with up to MaxImages images.
ImageCounts == {0, 1, ImmediateCount, MaxImages}

InitImages ==
    /\ InitReader({"u2"}, {<<"u1", "u2", "u3">>}, {NoManga}, ImageCounts)
    /\ InitStore({0}) /\ HomeIdle /\ InfIdle /\ GenresIdle
    /\ RequestIdle /\ SearchIdle /\ DetailIdle

SpecImages == InitImages /\ [][NextReader]_vars

\* Homepage: the updates part of loadHomepageContent and the cursor it sets up.
QuickLens == {0, QuickShown, QuickEnough - 1, QuickEnough, MaxQuick}

NextHome ==
    \/ \E kind \in ResponseKinds, hasData \in BOOLEAN, n \in QuickLens,
          first \in {1, 2} :
          QuickLoadSettles(kind, hasData, n, first)
    \/ \E kind \in ResponseKinds, n \in 0..MaxList : UnifiedSettles(kind, n)
    \/ \E kind \in ResponseKinds, n \in 0..MaxList : PopularSettles(kind, n)
    \/ LoadMoreContent
    \/ \E isIntersecting \in BOOLEAN : ObserverFires(isIntersecting)
    \/ TimerFires

InitHomepage ==
    /\ InitHome /\ InfIdle /\ InitStore({0}) /\ ReaderIdle /\ GenresIdle
    /\ RequestIdle /\ SearchIdle /\ DetailIdle

SpecHome == InitHomepage /\ [][NextHome]_vars

\* Pagination: a progressive cursor set up by a finished homepage load and an
\* infinite-scroll cursor, with their triggers and responses interleaved.
PagingLens == {StartAfterFull - 15, StartAfterFull + 5}

InitPaging ==
    /\ homePc = "done"
    /\ quickResult = NoResult
    /\ \E n \in PagingLens :
          /\ allMangaData = Catalog(n)
          /\ updatesGrid = GridCards(Slice(Catalog(n), 0, FullShown))
    /\ cursor = NewCursor(StartAfterFull)
    /\ timerPending = TRUE
    /\ lastCall = "none"
    /\ infCursor = NewInfCursor
    /\ inFlight = 0
    /\ InitStore({0}) /\ ReaderIdle /\ GenresIdle
    /\ RequestIdle /\ SearchIdle /\ DetailIdle

InfLens == {0, 1, InfLimit}

NextPaging ==
    \/ LoadMoreContent
    \/ \E isIntersecting \in BOOLEAN : ObserverFires(isIntersecting)
    \/ TimerFires
    \/ InfLoadMoreContent
    \/ \E isIntersecting \in BOOLEAN : InfObserverFires(isIntersecting)
    \/ InfTimerFires
    \/ \E kind \in ResponseKinds, n \in InfLens, serverHasMore \in BOOLEAN :
          InfResponse(kind, n, serverHasMore)

SpecPaging == InitPaging /\ [][NextPaging]_vars

\* Genre fan-out: one run of loadComickGenres.
NextGenres ==
    \/ GenresStart
    \/ \E g \in GenreIds, kind \in GenreResponseKinds, n \in 0..MaxPerGenre :
          GenreSettles(g, kind, n)
    \/ GenresMerge

InitGenreFanOut ==
    /\ InitGenres /\ InitStore({0}) /\ ReaderIdle /\ HomeIdle /\ InfIdle
    /\ RequestIdle /\ SearchIdle /\ DetailIdle

SpecGenres == InitGenreFanOut /\ [][NextGenres]_vars

\* Store administration: construction on any stored content, then imports,
\* preference updates, wipes and further init() runs.
ExistingHistory     == SerialHistory(2)
ExistingBookmarks   == <<Bookmark([title |-> "a_b", source |-> ""], 2)>>
ExistingProgress    == SerialProgress(2)
ExistingPreferences == Spread(DefaultPreferences, [fontSize |-> "large"])

\* The stored record of a category other than the default one.
ExistingOf(key) ==
    CASE key = KeyHistory     -> ExistingHistory
      [] key = KeyBookmarks   -> ExistingBookmarks
      [] key = KeyProgress    -> ExistingProgress
      [] key = KeyPreferences -> ExistingPreferences

\* What localStorage may hold under a key when the manager is constructed.
FoundKinds == {"absent", "default", "existing"}

ItemFound(key, kind) ==
    CASE kind = "absent"   -> NoItem
      [] kind = "default"  -> Stringify(DefaultOf(key))
      [] kind = "existing" -> Stringify(ExistingOf(key))

\* The constructor has run init().
Constructed == lastOp.name # "none"

InitAdmin ==
    /\ \E found \in [StoreKeys -> FoundKinds] :
          localStorage = [k \in AllKeys |->
                             IF k \in StoreKeys THEN ItemFound(k, found[k])
                             ELSE NoItem]
    /\ storageFull = FALSE
    /\ now = ClockStart
    /\ lastOp = NoOp
    /\ readingHistory = <<>>
    /\ ReaderIdle /\ HomeIdle /\ InfIdle /\ GenresIdle
    /\ RequestIdle /\ SearchIdle /\ DetailIdle

NextAdmin ==
    \/ StorageInit
    \/ Constructed /\ \E data \in Bundles : ImportData(data)
    \/ Constructed /\ \E newPreferences \in PreferenceUpdates :
          UpdatePreferences(newPreferences)
    \/ Constructed /\ ClearAllData

SpecAdmin == InitAdmin /\ [][NextAdmin]_vars

\* Write failures: every mutation and set() itself, called while the
\* browser's quota comes and goes.
QuotaBundles ==
    {Bundle(Payload(ImportedHistory), NullPayload, NullPayload, GarbagePayload),
     Bundle(NullPayload, Payload(ImportedBookmarks), Payload(ImportedProgress),
            CircularPayload),
     NullBundle}

QuotaPayloads == {Payload(ExistingPreferences), CircularPayload}

InitQuota ==
    /\ InitStore({0}) /\ ReaderIdle /\ HomeIdle /\ InfIdle /\ GenresIdle
    /\ RequestIdle /\ SearchIdle /\ DetailIdle

NextQuota ==
    \/ QuotaChanges
    \/ AddToHistory([title |-> "a", source |-> ""], "c")
    \/ AddBookmark([title |-> "a", source |-> "Webtoons"])
    \/ RemoveBookmark("a")
    \/ UpdateBookmarkStatus("a", "completed")
    \/ UpdateReadingProgress("a", "b_c")
    \/ \E newPreferences \in PreferenceUpdates : UpdatePreferences(newPreferences)
    \/ \E data \in QuotaBundles : ImportData(data)
    \/ \E payload \in QuotaPayloads : StorageSet(KeyPreferences, payload)

SpecQuota == InitQuota /\ [][NextQuota]_vars

\* Reading progress: chapters read, progress updates and chapter totals
\* set, in any order, on a freshly initialised store.
MaxTotal == 2

InitProgress ==
    /\ InitStore({0}) /\ ReaderIdle /\ HomeIdle /\ InfIdle /\ GenresIdle
    /\ RequestIdle /\ SearchIdle /\ DetailIdle

NextProgress ==
    \/ \E mangaTitle \in Titles :
          AddToHistory([title |-> mangaTitle, source |-> ""], "c")
    \/ \E mangaTitle \in Titles : UpdateReadingProgress(mangaTitle, "b_c")
    \/ \E mangaTitle \in Titles, totalChapters \in 0..MaxTotal :
          SetTotalChapters(mangaTitle, totalChapters)

SpecProgress == InitProgress /\ [][NextProgress]_vars

\* Continue reading: chapters of a few series opened one after another, on
\* top of a list that earlier reads of other series have filled.
SerialContinue(n) ==
    [i \in 1..n |->
        [title       |-> "s" \o ToString(n - i + 1),
         detail_url  |-> "d_s" \o ToString(n - i + 1),
         chapter_url |-> "u1",
         timestamp   |-> n - i + 1]]

ContinueSizes == {0, RecentCap - 1, RecentCap}

\* current_manga records: two series, one of them listed by two sources
\* under the same title.
ContinueMangas ==
    {[title |-> "a",   detail_url |-> "d_a",  source |-> ""],
     [title |-> "a",   detail_url |-> "w_a",  source |-> "Webtoons"],
     [title |-> "a_b", detail_url |-> "d_ab", source |-> ""]}

InitContinue ==
    /\ \E n \in ContinueSizes :
          /\ readingHistory = SerialContinue(n)
          /\ localStorage =
                [StoreAfterInit(0) EXCEPT
                    ![KeyContinue] = IF n = 0 THEN NoItem
                                     ELSE Stringify(SerialContinue(n))]
    /\ storageFull = FALSE
    /\ now = ClockStart
    /\ lastOp = NoOp
    /\ ReaderIdle /\ HomeIdle /\ InfIdle /\ GenresIdle /\ RequestIdle /\ SearchIdle /\ DetailIdle

NextContinue ==
    \E mangaData \in ContinueMangas, url \in {"u1", "u2"} :
        SaveReadingProgress(mangaData, url)

SpecContinue == InitContinue /\ [][NextContinue]_vars

\* Namespace: every StorageManager operation, on a storage that also holds
\* the continue-reading list main.js keeps under its own key.
ForeignKeys == AllKeys \ StoreKeys

InitNamespace ==
    /\ \E n \in {1, RecentCap} :
          /\ readingHistory = SerialContinue(n)
          /\ localStorage =
                [StoreAfterInit(0) EXCEPT ![KeyContinue] = Stringify(SerialContinue(n))]
    /\ storageFull = FALSE
    /\ now = ClockStart
    /\ lastOp = NoOp
    /\ ReaderIdle /\ HomeIdle /\ InfIdle /\ GenresIdle /\ RequestIdle /\ SearchIdle /\ DetailIdle

NextNamespace ==
    \/ StorageInit
    \/ AddToHistory([title |-> "a", source |-> ""], "c")
    \/ ClearHistory
    \/ AddBookmark([title |-> "a", source |-> "Webtoons"])
    \/ RemoveBookmark("a")
    \/ UpdateBookmarkStatus("a", "completed")
    \/ UpdateReadingProgress("a", "b_c")
    \/ SetTotalChapters("a", 1)
    \/ UpdatePreferences([theme |-> "light"])
    \/ ImportData(Bundle(Payload(ImportedHistory), Payload(ImportedBookmarks),
                         NullPayload, GarbagePayload))
    \/ StorageSet(KeyPreferences, Payload(ExistingPreferences))
    \/ ClearAllData

SpecNamespace == InitNamespace /\ [][NextNamespace]_vars

\* Detail page: one series displayed, then any sequence of sort clicks.
InitDetails ==
    /\ DetailIdle
    /\ InitStore({0}) /\ ReaderIdle /\ HomeIdle /\ InfIdle /\ GenresIdle
    /\ RequestIdle /\ SearchIdle

NextDetails ==
    \/ \E urls \in UrlLists(MaxListed) : DisplayMangaDetails(ChapterListOf(urls))
    \/ SortAscClick
    \/ SortDescClick

SpecDetails == InitDetails /\ [][NextDetails]_vars

\* Homepage load as a whole: loadHomepageContent awaits loadComickGenres and
\* only then sends the quick-load and the full-load requests.
GenresFinished == genrePc = "done"

InitHomepageLoad ==
    /\ InitGenres /\ InitHome /\ InfIdle /\ InitStore({0}) /\ ReaderIdle
    /\ RequestIdle /\ SearchIdle /\ DetailIdle

NextHomepageLoad ==
    \/ GenresStart
    \/ \E g \in GenreIds, kind \in {"success", "timeout"}, n \in {0, 1} :
          GenreSettles(g, kind, n)
    \/ GenresMerge
    \/ /\ GenresFinished
       /\ \E kind \in {"success", "timeout"}, hasData \in BOOLEAN,
             n \in {0, MaxQuick} : QuickLoadSettles(kind, hasData, n, 1)
    \/ /\ GenresFinished
       /\ \E kind \in {"success", "timeout"}, n \in {0, MaxList} :
             UnifiedSettles(kind, n)
    \/ /\ GenresFinished
       /\ \E kind \in {"success", "timeout"}, n \in {0, MaxList} :
             PopularSettles(kind, n)

SpecHomepageLoad == InitHomepageLoad /\ [][NextHomepageLoad]_vars

\* Source selector: a series displayed from the default source, then source
\* buttons clicked while earlier requests may still be under way.
InitSources == InitDetails

NextSources ==
    \/ DisplayMangaDetails(DetailsFrom(DefaultSource).chapters)
    \/ \E source \in Sources : SourceSelected(source)
    \/ \E source \in Sources, kind \in ResponseKinds : SourceResponds(source, kind)
    \/ SortAscClick
    \/ SortDescClick

SpecSources == InitSources /\ [][NextSources]_vars

\* Live search: typing, the debounce timer and the responses interleaved.
InitSearch ==
    /\ SearchIdle /\ DetailIdle
    /\ InitStore({0}) /\ ReaderIdle /\ HomeIdle /\ InfIdle /\ GenresIdle
    /\ RequestIdle

NextSearch ==
    \/ \E value \in InputValues : SearchInput(value)
    \/ DebounceFires
    \/ \E query \in Queries, kind \in ResponseKinds, n \in {0, 1} :
          SearchResponds(query, kind, n)

SpecSearch == InitSearch /\ [][NextSearch]_vars

\* Requests: fetch calls made one after another, with every behaviour of the
\* upstream, which may also stay silent.  Only the timer is sure to fire.
InitRequest ==
    /\ RequestIdle /\ SearchIdle /\ DetailIdle
    /\ InitStore({0}) /\ ReaderIdle /\ HomeIdle /\ InfIdle /\ GenresIdle

NextRequest ==
    \/ \E caller \in Callers : RequestStart(caller)
    \/ NetworkFails
    \/ \E ok \in BOOLEAN : HeadersArrive(ok)
    \/ TimeoutFires
    \/ \E kind \in BodyKinds, n \in 0..MaxData : BodyArrives(kind, n)

SpecRequest == InitRequest /\ [][NextRequest]_vars /\ WF_vars(TimeoutFires)

\* The pagination guard: both cursors of SpecPaging, the infinite-scroll
\* cursor sending its page requests through makeApiRequest.  The timer
\* callback and the continuation of a settled await are sure to run; the
\* upstream is not sure to answer.
NextGuard ==
    \/ LoadMoreContent
    \/ \E isIntersecting \in BOOLEAN : ObserverFires(isIntersecting)
    \/ TimerFires
    \/ GuardedLoadMore
    \/ NetworkFails
    \/ \E ok \in BOOLEAN : HeadersArrive(ok)
    \/ TimeoutFires
    \/ \E kind \in BodyKinds, n \in 0..MaxData : BodyArrives(kind, n)
    \/ \E serverHasMore \in BOOLEAN : PageRequestResumes(serverHasMore)

GuardFairness ==
    /\ WF_vars(TimeoutFires)
    /\ WF_vars(\E serverHasMore \in BOOLEAN : PageRequestResumes(serverHasMore))

SpecGuard == InitPaging /\ [][NextGuard]_vars /\ GuardFairness

\* The same with an upstream that always completes the body it has begun.
SpecGuardAnswered ==
    SpecGuard /\ WF_vars(\E kind \in BodyKinds, n \in 0..MaxData : BodyArrives(kind, n))

-----------------------------------------------------------------------------
(* Properties                                                              *)

StoredHistory   == GetOr(localStorage, KeyHistory, <<>>)
StoredBookmarks == GetOr(localStorage, KeyBookmarks, <<>>)

CountId(list, id) == Cardinality({i \in DOMAIN list : list[i].id = id})

\* C1: after any sequence of addToHistory calls the stored history is ordered
\* most-recent-first (read times never increase down the list, and the entry
\* of the latest call is at index 0), holds no two entries with the same
\* composite id, and has at most 100 entries.
C1_HistoryRecentFirstUniqueCapped ==
    /\ Len(StoredHistory) <= HistoryCap
    /\ \A i, j \in DOMAIN StoredHistory :
          i # j => StoredHistory[i].id # StoredHistory[j].id
    /\ \A i \in 1..(Len(StoredHistory) - 1) :
          StoredHistory[i].readAt >= StoredHistory[i + 1].readAt
    /\ lastOp.name = "addToHistory" =>
          /\ Len(StoredHistory) > 0
          /\ StoredHistory[1] = lastOp.value

\* A full history whose latest call added a new id at the front and so pushed
\* the oldest entry of the serial title past the cap.
C1_Witness ==
    /\ Len(StoredHistory) = HistoryCap
    /\ lastOp.name = "addToHistory"
    /\ StoredHistory[1].id = "a_b_c"
    /\ \A i \in DOMAIN StoredHistory :
          StoredHistory[i].id # HistoryId(SerialTitle, "1")
    /\ StoredHistory[HistoryCap].mangaTitle = SerialTitle

\* C2: addBookmark called twice in a row with the same title: the second call
\* returns false, leaves the bookmarks list unchanged, and the list holds
\* exactly one bookmark with that id.
C2_AddBookmarkIdempotent ==
    [][\A t \in Titles :
          (/\ lastOp.name = "addBookmark" /\ lastOp.title = t
           /\ lastOp'.name = "addBookmark" /\ lastOp'.title = t)
          => /\ lastOp'.returned = "false"
             /\ StoredBookmarks' = StoredBookmarks
             /\ CountId(StoredBookmarks', t) = 1]_vars

\* A second addBookmark of a bookmarked title has returned false.
C2_Witness ==
    /\ lastOp.name = "addBookmark"
    /\ lastOp.returned = "false"
    /\ CountId(StoredBookmarks, lastOp.title) = 1
    /\ Len(StoredBookmarks) = 2

\* The first position (1-based) of the reader's URL in the chapter list.
FirstPositionOf(list, url) ==
    CHOOSE i \in DOMAIN list :
        list[i].url = url /\ \A j \in DOMAIN list : list[j].url = url => i <= j

UrlListed == \E i \in DOMAIN chapterList : chapterList[i].url = chapterUrl

\* C3: with the current URL found at index i of a newest-first list of length
\* N, navigation resolves previous = list[i+1] (null when i = N-1) and
\* next = list[i-1] (null when i = 0), and a page that loaded with its URL
\* listed always resolves its navigation.
C3_NavigationNeighbours ==
    /\ (readerPc = "done" /\ container # "error" /\ UrlListed) => nav.resolved
    /\ nav.resolved =>
          LET i == FirstPositionOf(chapterList, chapterUrl)
              N == Len(chapterList)
          IN  /\ UrlListed
              /\ nav.currentIndex = i - 1
              /\ nav.prevChapter = IF i = N THEN NullChapter ELSE chapterList[i + 1]
              /\ nav.nextChapter = IF i = 1 THEN NullChapter ELSE chapterList[i - 1]
              /\ prevBtn = ButtonFor(nav.prevChapter.url)
              /\ nextBtn = ButtonFor(nav.nextChapter.url)

\* Navigation resolved in the middle of a three-chapter list.
C3_Witness ==
    /\ nav.resolved
    /\ Len(chapterList) = 3
    /\ nav.currentIndex = 1
    /\ nav.prevChapter = chapterList[3]
    /\ nav.nextChapter = chapterList[1]

\* C4: when the chapter loaded but its URL is absent from the chapter list
\* (an empty list included), the reader shows the non-navigable basic view:
\* both buttons hidden, the loaded images still displayed, no error state.
C4_AbsentUrlDegradesToBasicView ==
    (readerPc = "done" /\ chapterUrl # "" /\ ~UrlListed /\ tasks # <<>>)
    => /\ container = "images"
       /\ prevBtn.display = "none"
       /\ nextBtn.display = "none"

\* C5: the items a progressive-scroll cursor has appended are the items of
\* the list from its start offset up to its offset, in order, and once
\* hasMoreData is false they are all items from the start offset onward.
C5_CursorReturnsEachItemOnce ==
    cursor.created =>
       /\ cursor.appended =
             Slice(allMangaData, cursor.startOffset, cursor.currentOffset)
       /\ ~cursor.hasMoreData =>
             cursor.appended =
                SubSeq(allMangaData, cursor.startOffset + 1, Len(allMangaData))

\* A cursor that has run dry after more than one batch.
C5_Witness ==
    /\ cursor.created
    /\ ~cursor.hasMoreData
    /\ Len(cursor.appended) > BatchSize
    /\ cursor.startOffset = StartAfterFull

\* C6: the offset of a progressive-scroll cursor never exceeds the length of
\* the source list.
C6_OffsetWithinList ==
    cursor.created => cursor.currentOffset <= Len(allMangaData)

\* C7: at most one page request is in flight for a cursor, and a
\* loadMoreContent call or trigger that arrives while isLoading is true
\* issues no request and leaves the cursor's offset, hasMoreData and rendered
\* items unchanged; the progressive cursor is never left loading.
C7_SingleFlight ==
    /\ [](/\ inFlight <= 1
          /\ infCursor.isLoading <=> inFlight = 1
          /\ ~cursor.isLoading)
    /\ [][(infCursor.isLoading /\ inFlight' >= inFlight)
          => /\ inFlight' = inFlight
             /\ infCursor'.isLoading
             /\ infCursor'.currentOffset = infCursor.currentOffset
             /\ infCursor'.hasMoreData = infCursor.hasMoreData
             /\ infCursor'.rendered = infCursor.rendered]_vars

\* loadMoreContent was called while a request was in flight and did nothing.
C7_Witness ==
    /\ infCursor.isLoading
    /\ infCursor.lastCall = "noop"
    /\ inFlight = 1

HighTasks == {i \in DOMAIN tasks : tasks[i].fetchPriority = "high"}
LowTasks  == {i \in DOMAIN tasks : tasks[i].fetchPriority = "low"}

\* C8: a loaded chapter of N images has one task per URL, in order; the first
\* min(N, 10) are high priority and the other N - min(N, 10) low priority.
C8_PriorityTiers ==
    (readerPc = "done" /\ chapterUrl # "" /\ container # "error") =>
       LET N == Len(imageUrls)
       IN  /\ Len(tasks) = N
           /\ \A i \in DOMAIN tasks :
                 /\ tasks[i].url = imageUrls[i]
                 /\ tasks[i].ordinal = i
           /\ HighTasks = 1..Min(N, ImmediateCount)
           /\ LowTasks = (Min(N, ImmediateCount) + 1)..N
           /\ Cardinality(LowTasks) = N - Min(N, ImmediateCount)

\* A chapter with more than ten images has been scheduled.
C8_Witness ==
    /\ readerPc = "done"
    /\ container = "images"
    /\ Len(tasks) = MaxImages
    /\ Cardinality(HighTasks) = ImmediateCount
    /\ Cardinality(LowTasks) = MaxImages - ImmediateCount

\* C9: the failure of one image changes only that image's task: every other
\* task, the set of tasks and the chapter view stay as they were.
C9_FailureIsolated ==
    [][\A i \in DOMAIN tasks :
          (/\ DOMAIN tasks' = DOMAIN tasks
           /\ tasks[i].state = "loading"
           /\ tasks'[i].state = "failed")
          => /\ \A j \in DOMAIN tasks : j # i => tasks'[j] = tasks[j]
             /\ container' = container
             /\ readerPc' = readerPc
             /\ nav' = nav]_vars

\* One image of each tier has failed while other images loaded and the
\* chapter is still displayed.
C9_Witness ==
    /\ container = "images"
    /\ \E i, j \in HighTasks : tasks[i].state = "failed" /\ tasks[j].state = "loaded"
    /\ \E i \in LowTasks : tasks[i].state = "failed"

Succeeded == {g \in GenreIds : genreFetch[g].state = "settled" /\ genreFetch[g].kind = "success"}

RECURSIVE SumLen(_, _)
SumLen(fetch, g) ==
    IF g > Len(Genres) THEN 0 ELSE Len(fetch[g].returned) + SumLen(fetch, g + 1)

\* C10: once the fan-out is merged, the merged result holds every entry each
\* successful source returned and nothing else: a source that failed or
\* timed out contributes no entry and does not keep the others out.
C10_FailedSourceContributesNothing ==
    genrePc = "done" =>
       /\ Range(allComickComics) =
             UNION {Range(genreFetch[g].returned) : g \in Succeeded}
       /\ Len(allComickComics) = SumLen(genreFetch, 1)
       /\ \A g \in GenreIds \ Succeeded :
             \A i \in DOMAIN allComickComics :
                \A n \in 1..MaxPerGenre : allComickComics[i] # GenreComics(g, n)[n]

\* Merged with one source timed out, one failed and two that returned entries.
C10_Witness ==
    /\ genrePc = "done"
    /\ genreFetch[2].kind = "timeout"
    /\ genreFetch[4].kind = "http_error"
    /\ Len(genreFetch[1].returned) = MaxPerGenre
    /\ Len(genreFetch[3].returned) = 1
    /\ Len(allComickComics) >= MaxPerGenre + 1

\* C11: once the quick path has displayed entries in the updates grid, the
\* grid never shows fewer catalog entries than the quick path displayed:
\* the full result replaces them only with a list at least as long.
C11_ShownNeverShrinks ==
    (quickResult.settled = "ok" /\ quickResult.hasData /\ homePc # "quick")
    => Len(updatesGrid.cards) >= Min(Len(quickResult.data), QuickShown)

\* The import bundle of the last call and the store it was applied to.
ImportedBundle == lastOp.value.data
StoreBefore    == lastOp.value.before

\* C12: after importData of a bundle whose preferences payload is corrupted
\* and whose history and bookmarks payloads are valid, the stored
\* preferences are what they were before the import, and history and
\* bookmarks hold a valid list (the imported one, or the one held before).
C12_CorruptPreferencesLeftAlone ==
    (/\ lastOp.name = "importData"
     /\ ImportedBundle.kind = "object"
     /\ ImportedBundle.userPreferences.kind \in {"garbage", "circular"}
     /\ ImportedBundle.readingHistory.kind = "value"
     /\ ImportedBundle.bookmarks.kind = "value")
    => /\ localStorage[KeyPreferences] = StoreBefore[KeyPreferences]
       /\ localStorage[KeyHistory] \in
             {StoreBefore[KeyHistory], Stringify(ImportedBundle.readingHistory.value)}
       /\ localStorage[KeyBookmarks] \in
             {StoreBefore[KeyBookmarks], Stringify(ImportedBundle.bookmarks.value)}

\* C15: init() writes the default of every category it finds absent, leaves
\* every category that holds a record as it is, and a second init() right
\* after the first changes nothing (on a storage that accepts the writes).
C15_InitIdempotent ==
    [][lastOp'.name = "init" =>
          /\ \A k \in StoreKeys :
                /\ localStorage'[k].present
                /\ localStorage[k].present => localStorage'[k] = localStorage[k]
                /\ ~localStorage[k].present =>
                      localStorage'[k] = Stringify(DefaultOf(k))
          /\ lastOp.name = "init" => localStorage' = localStorage
          /\ StoreAfterInitCall(localStorage', storageFull) = localStorage']_vars

\* init() has filled the absent preferences and progress and left an
\* existing history and bookmarks list alone.
C15_Witness ==
    /\ lastOp.name = "init"
    /\ ~StoreBefore[KeyPreferences].present
    /\ ~StoreBefore[KeyProgress].present
    /\ StoreBefore[KeyHistory] = Stringify(ExistingHistory)
    /\ localStorage[KeyHistory] = Stringify(ExistingHistory)
    /\ localStorage[KeyBookmarks] = Stringify(ExistingBookmarks)
    /\ localStorage[KeyPreferences] = Stringify(DefaultPreferences)

\* C13: no StorageManager call ends with an exception thrown at its caller,
\* and set() called while the storage rejects writes returns false.
C13_WriteFailureContained ==
    /\ lastOp.returned # "throws"
    /\ (lastOp.name = "set" /\ lastOp.value.full) => lastOp.returned = "false"

\* set() was called on a full storage, returned false and wrote nothing.
C13_Witness ==
    /\ storageFull
    /\ lastOp.name = "set"
    /\ lastOp.value.full
    /\ lastOp.returned = "false"
    /\ localStorage = lastOp.value.before

\* C14: bookmarks are keyed by title only: no two stored bookmarks share an
\* id or a title, a title added from any source is bookmarked whichever
\* source first bookmarked it, and the bookmark button leaves a title
\* bookmarked exactly when it reports having added it.
C14_OneBookmarkPerTitle ==
    /\ \A i, j \in DOMAIN StoredBookmarks :
          i # j => /\ StoredBookmarks[i].id # StoredBookmarks[j].id
                   /\ StoredBookmarks[i].title # StoredBookmarks[j].title
    /\ lastOp.name = "addBookmark" => IsBookmarked(localStorage, lastOp.title)
    /\ lastOp.name = "toggleBookmark" =>
          (IsBookmarked(localStorage, lastOp.title) <=> lastOp.returned = "added")

\* addBookmark of a title from one source was refused because the title is
\* bookmarked from another source, which is still the only bookmark of it.
C14_Witness ==
    /\ lastOp.name = "addBookmark"
    /\ lastOp.returned = "false"
    /\ lastOp.value.source = "Webtoons"
    /\ \E i \in DOMAIN StoredBookmarks :
          /\ StoredBookmarks[i].id = lastOp.title
          /\ StoredBookmarks[i].source = DefaultSource
    /\ CountId(StoredBookmarks, lastOp.title) = 1

\* C16: in every state of a progressive-scroll cursor, from its creation on,
\* hasMoreData is true exactly when its offset is below the length of the
\* source list.
C16_HasMoreIffOffsetBelowLength ==
    cursor.created =>
       (cursor.hasMoreData <=> cursor.currentOffset < Len(allMangaData))

\* C17: the merged result is in fetcher-completion order: when the source
\* whose fetch completed first returned entries, the merged result starts
\* with them, wherever that source stands in the list of sources.
C17_CompletionOrder ==
    (genrePc = "done" /\ firstSettled # 0
       /\ Len(genreFetch[firstSettled].comics) > 0)
    => SubSeq(allComickComics, 1, Len(genreFetch[firstSettled].comics))
          = genreFetch[firstSettled].comics

\* C18: a source that has not responded yet does not hold back the others:
\* while some source is still pending, the entries of every source that has
\* already responded are available for display.
C18_SlowSourceDoesNotDelay ==
    \A g \in GenreIds :
       (/\ genrePc = "fetching"
        /\ genreFetch[g].state = "settled"
        /\ Len(genreFetch[g].comics) > 0
        /\ \E slow \in GenreIds : genreFetch[slow].state = "pending")
       => /\ trendingGrid.state = "cards"
          /\ \A i \in DOMAIN genreFetch[g].comics :
                \E j \in DOMAIN allComickComics :
                   allComickComics[j] = genreFetch[g].comics[i]

\* C19: every request made through makeApiRequest eventually settles,
\* whether the upstream withholds the headers or the body.
C19_EveryRequestSettles ==
    [](request.pc \in {"sent", "body"} => <>(request.pc = "settled"))

\* C20: a response with a non-success envelope (HTTP status not ok, or
\* success = false) is never handed to the caller as an empty list.
C20_FailureNeverAnEmptyResult ==
    (request.pc = "settled"
       /\ request.envelope \in {"http_not_ok", "success_false"})
    => ~(request.result.kind = "list" /\ request.result.n = 0)

StoredProgress == GetOr(localStorage, KeyProgress, EmptyObject)

\* C21: the total-chapters counter of a title never goes down: after
\* setTotalChapters the stored total is at least the total stored before the
\* call (addToHistory and updateReadingProgress carry the total over).
C21_TotalChaptersNeverDecreases ==
    lastOp.name = "setTotalChapters"
        => TotalChaptersOf(StoredProgress, lastOp.title) >= lastOp.value.before

ContinueCapped == Len(readingHistory) <= RecentCap

ContinueRecentFirst ==
    \A i \in 1..(Len(readingHistory) - 1) :
        readingHistory[i].timestamp >= readingHistory[i + 1].timestamp

ContinueOnePerTitle ==
    \A i, j \in 1..Len(readingHistory) :
        readingHistory[i].title = readingHistory[j].title => i = j

\* C22: after any sequence of saveReadingProgress calls the continue-reading
\* list has at most 10 entries, is ordered most-recent-first, and holds at
\* most one entry per title.
C22_ContinueCappedOrderedOnePerTitle ==
    ContinueCapped /\ ContinueRecentFirst /\ ContinueOnePerTitle

\* C23: when a chapter is scheduled, one task per page image is created and
\* every one of them, high or low priority, is requested in that same step:
\* none stays pending or is left to lazy loading.
C23_AllRequestedAtSchedule ==
    [][(tasks = <<>> /\ tasks' # <<>>) =>
          /\ Len(tasks') = Len(imageUrls)
          /\ \A i \in DOMAIN tasks' :
                /\ tasks'[i].state = "loading"
                /\ tasks'[i].loading = "eager"]_vars

\* A chapter of more than ten images has just been scheduled: the requests
\* of both tiers are under way and none has settled.
C23_Witness ==
    /\ Len(tasks) = MaxImages
    /\ LowTasks # {}
    /\ \A i \in DOMAIN tasks : tasks[i].state = "loading"

\* C24: an image task, once requested, only goes from loading to loaded or
\* from loading to failed; loaded and failed are final (no retry), and tasks
\* are neither dropped nor added while the chapter is shown.
C24_TaskTransitions ==
    [][tasks # <<>> =>
          /\ DOMAIN tasks' = DOMAIN tasks
          /\ \A i \in DOMAIN tasks :
                \/ tasks'[i].state = tasks[i].state
                \/ /\ tasks[i].state = "loading"
                   /\ tasks'[i].state \in {"loaded", "failed"}]_vars

\* Every image of a chapter with both tiers has settled, some loaded and
\* some failed in each tier's reach.
C24_Witness ==
    /\ Len(tasks) = MaxImages
    /\ \A i \in DOMAIN tasks : tasks[i].state \in {"loaded", "failed"}
    /\ \E i \in HighTasks, j \in LowTasks :
          tasks[i].state = "failed" /\ tasks[j].state = "failed"
    /\ \E i \in HighTasks : tasks[i].state = "loaded"

\* C25: a failed image task shows its failure placeholder, whichever tier
\* it belongs to.
C25_FailedTaskShowsPlaceholder ==
    \A i \in DOMAIN tasks : tasks[i].state = "failed" => tasks[i].mark = "error"

\* C26: a page request that comes back with an empty slice means "no more
\* data": the cursor's hasMore flag becomes false and it stops loading, while
\* its offset and the items already rendered stay as they were and the grid
\* shows no error.  This holds for the progressive cursor and for the
\* infinite-scroll cursor.
C26_EmptySliceEndsPaging ==
    [][/\ (lastCall' = "empty" /\ lastCall # "empty") =>
             /\ ~cursor'.hasMoreData
             /\ ~cursor'.isLoading
             /\ cursor'.currentOffset = cursor.currentOffset
             /\ cursor'.appended = cursor.appended
             /\ updatesGrid' = updatesGrid
             /\ updatesGrid'.state = "cards"
       /\ (infCursor'.lastCall = "empty" /\ infCursor.lastCall # "empty") =>
             /\ ~infCursor'.hasMoreData
             /\ ~infCursor'.isLoading
             /\ infCursor'.currentOffset = infCursor.currentOffset
             /\ infCursor'.rendered = infCursor.rendered
             /\ updatesGrid' = updatesGrid]_vars

\* Both cursors have met an empty slice, the infinite-scroll one after it
\* had rendered a page.
C26_Witness ==
    /\ lastCall = "empty"
    /\ ~cursor.hasMoreData
    /\ infCursor.lastCall = "empty"
    /\ infCursor.rendered > 0
    /\ ~infCursor.hasMoreData

BookmarkStatuses == {"reading", "completed", "plan-to-read"}

\* C28: every stored bookmark carries one of the three statuses reading,
\* completed and plan-to-read, whatever updateBookmarkStatus was given.
C28_BookmarkStatusInRange ==
    \A i \in DOMAIN StoredBookmarks : StoredBookmarks[i].status \in BookmarkStatuses

Occurrences == {i \in DOMAIN chapterList : chapterList[i].url = chapterUrl}

\* C30: when the current URL occurs more than once in the chapter list,
\* navigation is resolved from its lowest position: previous and next are
\* the entries right after and right before that position, and no lower
\* position holds the URL.
C30_DuplicateUrlFirstMatch ==
    (nav.resolved /\ Cardinality(Occurrences) > 1) =>
        LET first == nav.currentIndex + 1
        IN  /\ first \in Occurrences
            /\ \A i \in Occurrences : first <= i
            /\ nav.prevChapter = IF first = Len(chapterList) THEN NullChapter
                                 ELSE chapterList[first + 1]
            /\ nav.nextChapter = IF first = 1 THEN NullChapter
                                 ELSE chapterList[first - 1]

\* The current URL sits at the second and third positions of a three-entry
\* list: navigation resolved from the second, whose previous chapter is the
\* duplicate entry.
C30_Witness ==
    /\ nav.resolved
    /\ Occurrences = {2, 3}
    /\ nav.currentIndex = 1
    /\ nav.prevChapter = chapterList[3]
    /\ nav.nextChapter = chapterList[1]
    /\ nav.prevChapter.url = chapterUrl

\* C29: once a series is displayed, no sort click changes the canonical
\* chapter list: window.mangaChapters and the stored current_manga_chapters
\* stay equal to each other and to what was delivered, so the neighbours of
\* every position are the same before and after the click; only the shown
\* list follows the button, in the canonical order or in its reverse.
C29_SortLeavesCanonicalList ==
    [][mangaChapters.defined =>
          /\ mangaChapters' = mangaChapters
          /\ chapterList' = chapterList
          /\ chapterList' = mangaChapters'.list
          /\ \A i \in 0..(Len(chapterList) - 1) :
                /\ PrevChapterAt(chapterList', i) = PrevChapterAt(chapterList, i)
                /\ NextChapterAt(chapterList', i) = NextChapterAt(chapterList, i)
          /\ chapterListView' =
                RenderChapterList(IF sortActive' = "asc"
                                  THEN Reverse(chapterList) ELSE chapterList,
                                  DefaultSource)]_vars

\* A list of distinct chapters is shown oldest first after an ascending
\* click, while the stored list is still newest first.
C29_Witness ==
    /\ sortActive = "asc"
    /\ Len(chapterList) = 3
    /\ chapterListView[1].url = chapterList[3].url
    /\ chapterListView[1].url # chapterList[1].url
    /\ mangaChapters.list = chapterList

\* C31: an addBookmark call that hands back a Bookmark record has stored it:
\* when the write fails the call signals failure instead, so its result
\* agrees with isBookmarked(title).
C31_AddBookmarkResultAgreesWithStore ==
    (lastOp.name = "addBookmark" /\ lastOp.returned = "bookmark")
        => IsBookmarked(localStorage, lastOp.title)

\* C32: a failed unified-popular request is followed by a request to the
\* regular popular endpoint: the step that settles the unified request
\* without a full result never ends the load with the error state.
C32_UnifiedFailureFallsBack ==
    [][(homePc = "unified" /\ homePc' = "done" /\ allMangaData' = <<>>)
          => updatesGrid'.state # "error"]_vars

\* C33: right after clearAllData the store is in its initial state: every
\* category holds its default (history [], bookmarks [], progress {},
\* preferences the defaults) and nothing held before the wipe is left (on a
\* storage that accepts the writes).
C33_WipeRestoresInitialState ==
    lastOp.name = "clearAllData" =>
        /\ \A k \in StoreKeys : localStorage[k] = Stringify(DefaultOf(k))
        /\ GetOr(localStorage, KeyHistory, <<>>) = <<>>
        /\ GetOr(localStorage, KeyBookmarks, <<>>) = <<>>
        /\ DOMAIN GetOr(localStorage, KeyProgress, EmptyObject) = {}

\* clearAllData has run on a store that held history, bookmarks, progress
\* and changed preferences.
C33_Witness ==
    /\ lastOp.name = "clearAllData"
    /\ lastOp.value.before[KeyHistory] = Stringify(ExistingHistory)
    /\ lastOp.value.before[KeyBookmarks] = Stringify(ExistingBookmarks)
    /\ lastOp.value.before[KeyProgress] = Stringify(ExistingProgress)
    /\ lastOp.value.before[KeyPreferences] = Stringify(ExistingPreferences)
    /\ localStorage[KeyPreferences] = Stringify(DefaultPreferences)

UpdatesGridSettled == homePc = "done" => updatesGrid.state # "loading"

\* C34: once loadHomepageContent has finished, neither the trending grid
\* nor the updates grid is left in the loading state.
C34_NoGridLeftLoading ==
    (GenresFinished /\ homePc = "done") =>
        /\ trendingGrid.state # "loading"
        /\ updatesGrid.state # "loading"

\* C35: recording a chapter never removes the history entry of a different
\* (manga title, chapter title) pair, unless the 100-entry cap pushes it out:
\* below the cap, every entry of another pair is still there after the call.
C35_DifferentPairsNeverCollide ==
    [][(lastOp'.name = "addToHistory" /\ Len(StoredHistory) < HistoryCap) =>
          \A i \in DOMAIN StoredHistory :
             (\/ StoredHistory[i].mangaTitle # lastOp'.value.mangaTitle
              \/ StoredHistory[i].chapterTitle # lastOp'.value.chapterTitle)
             => \E j \in DOMAIN StoredHistory' :
                   StoredHistory'[j] = StoredHistory[i]]_vars

DistinctUrls ==
    \A i, j \in DOMAIN chapterList :
        chapterList[i].url = chapterList[j].url => i = j

\* What a reader page opened at `url` resolves from the stored list.
PrevResolvedAt(url) == PrevChapterAt(chapterList, CurrentIndexOf(chapterList, url))
NextResolvedAt(url) == NextChapterAt(chapterList, CurrentIndexOf(chapterList, url))

\* C36: on a chapter list of pairwise distinct URLs navigation is symmetric:
\* when the page at chapter A resolved next = B, a page at B resolves
\* previous = A, and when it resolved previous = B, a page at B resolves
\* next = A.
C36_NavigationSymmetric ==
    (nav.resolved /\ DistinctUrls) =>
        LET A == chapterList[nav.currentIndex + 1]
        IN  /\ nav.nextChapter # NullChapter =>
                  PrevResolvedAt(nav.nextChapter.url) = A
            /\ nav.prevChapter # NullChapter =>
                  NextResolvedAt(nav.prevChapter.url) = A

\* Navigation resolved in the middle of a list of three distinct chapters,
\* with a newer and an older neighbour to come back from.
C36_Witness ==
    /\ nav.resolved
    /\ DistinctUrls
    /\ Len(chapterList) = 3
    /\ nav.currentIndex = 1
    /\ nav.nextChapter = chapterList[1]
    /\ nav.prevChapter = chapterList[3]
    /\ PrevResolvedAt(chapterList[1].url) = chapterList[2]

NoSourcePending == \A s \in Sources : sourceFetches[s] # "pending"

\* C37: once every source request has settled, and the request of the most
\* recently selected source succeeded, the current source, the current
\* manga data and the stored chapter list are those of that source: a late
\* response for a source selected earlier does not overwrite them.
C37_LatestSelectionWins ==
    (/\ NoSourcePending
     /\ activeSource \in Sources
     /\ sourceFetches[activeSource] = "ok")
    => /\ currentMangaSource = activeSource
       /\ currentMangaData = DetailsFrom(activeSource)
       /\ chapterList = DetailsFrom(activeSource).chapters
       /\ mangaChapters.list = DetailsFrom(activeSource).chapters

NoSearchPending == \A q \in Queries : searchFetches[q] = 0

\* C38: once every search request has settled, the dropdown shows the
\* outcome (results, none or error) of the most recent query, the one
\* recorded in AppState.lastSearchQuery.
C38_NoStaleSearchResults ==
    (NoSearchPending /\ lastSearchQuery # "") =>
        /\ resultsContainer.content \in {"results", "none", "error"}
        /\ resultsContainer.query = lastSearchQuery

\* C39: on the homepage the initial render and the later loadMoreContent
\* pages together show the full result list: once the cursor has no more
\* data, the updates grid holds every entry of window.allMangaData exactly
\* once and in list order, on the full-load path and on the quick-load path.
C39_PagesCoverFullList ==
    (cursor.created /\ ~cursor.hasMoreData) => updatesGrid.cards = allMangaData

\* The same on the full-load path only (cursor started at 20).
FullPathCoversList ==
    (cursor.created /\ ~cursor.hasMoreData /\ cursor.startOffset = StartAfterFull)
        => updatesGrid.cards = allMangaData

\* The same on the quick-load path when the quick-load response starts with
\* the entries the full list starts with and the full list reaches the
\* cursor's start.
QuickPathCoversAgreeingList ==
    (/\ cursor.created /\ ~cursor.hasMoreData
     /\ cursor.startOffset = StartAfterQuick
     /\ Len(allMangaData) >= StartAfterQuick
     /\ Slice(quickResult.data, 0, QuickShown) = Slice(allMangaData, 0, QuickShown))
        => updatesGrid.cards = allMangaData

\* C40: the pagination guard is always released: whenever a loadMoreContent
\* call has set isLoading to true, isLoading is eventually false again, on
\* the infinite-scroll cursor and on the progressive cursor.
C40_GuardAlwaysReleased ==
    (infCursor.isLoading \/ cursor.isLoading)
        ~> (~infCursor.isLoading /\ ~cursor.isLoading)

\* The guard is held exactly while the page request is awaited: every way
\* the request settles (items, nothing, a failure) ends in the finally.
GuardHeldOnlyWhileAwaiting == infCursor.isLoading <=> inFlight > 0

=============================================================================
